---------------------------- MODULE Spec2Model ----------------------------
(***************************************************************************)
(* Handoff escalation and message relay of CRISOS.                         *)
(*                                                                         *)
(* The participant client (ChatPanel, chatSlice, App) and the operator     *)
(* console (AdminPanel) are translated from the frontend sources.  The     *)
(* Relay Service and its Store (backend/app.py) are not among the sources; *)
(* their operations are written from sections 3, 4.1 and 5 of the          *)
(* specification and are marked as such where they are defined.            *)
(***************************************************************************)
EXTENDS Integers, Sequences, FiniteSets, TLC

(***************************************************************************)
(* Bounds of the model.                                                    *)
(***************************************************************************)
MaxUserTexts == 2      \* texts the participant submits while escalated
MaxAgentReplies == 1   \* replies an operator writes
MaxPolls == 2          \* participant message polls in flight at one time
MaxLoads == 1          \* page loads of the tab that end in a teardown and a reload
MaxRequests == 2       \* HandoffRequest records the Store may hold
MaxDialogue == 2       \* texts POSTed to the dialogue engine
MaxStored == 3         \* messages appended to the Store while a client reads it
MaxAdminCalls == 1     \* requests and responses of the console in flight at one time
MaxReplies == 2        \* entries of one payload of the dialogue engine
MaxThreadCalls == 2    \* calls for messages in flight next to a fetch of the selection effect
MaxSessions == 2       \* session ids in use at one time

(***************************************************************************)
(* Values.                                                                 *)
(***************************************************************************)
NULL == "null"
NoRequest == 0
Operators == {"opA", "opB", "admin"}
\* the n-th text the participant submits; the texts are pairwise different
UserText(n) == "u" \o ToString(n)
AgentText == "a1"
\* Composer.jsx:336 and :384, the note the teardown handler posts
SessionClosedText == "User left the chat. Session closed."
\* the notice the Relay Service itself appends when a request is closed
RelayClosedText == "session closed"
EscalationText == "connecting you to a human operator"
\* what the participant types into the location field, what the reverse
\* geocoder answers, and the coordinates shown when it does not answer
LocationText == "Berlin"
GpsLabel == "Hamburg"
Coords == "53.55, 9.99"
\* App.jsx:28, the payload of the first quick action
QuickActionText == "/request_warnings"
\* sendMessage.rejected: action.error.message, else this text
UnableToContact == "Unable to contact server."
\* App.jsx:328
GpsDeniedText == "Unable to access GPS. Please enter location manually."

VARIABLES
    \* ---- Store (HandoffRequest, HandoffMessage) ----
    requests,              \* Seq of [conversation_id, status, assigned_to,
                           \*         last_message_sender, reopened]; id = position
    handoffMessages,       \* Seq of [id, request_id, sender, text]; id = position
    \* ---- network ----
    outbox,                \* requests sent by the participant, not yet served
    inbox,                 \* responses on their way to a callback of the live page
    \* ---- participant: chatSlice state ----
    sessionId,
    messages,              \* rendered list, Seq of [id, sender, text]
    handoffActive,
    handoffRequestId,
    handoffLastMessageId,
    location,              \* chatSlice location: NULL, or the text it shows
    \* ---- participant: ChatPanel refs and browser storage ----
    ignoreHandoffIds,      \* ignoreHandoffIdsRef.current
    closingRef,
    reopenFlag,            \* sessionStorage crisos_handoff_closed_on_unload
    storedRequestId,       \* sessionStorage crisos_handoff_request_id
    persisted,             \* sessionStorage crisos_chat_state
    page,                  \* number of the current page load of the tab
    localIds,              \* ids handed out by createId
    mounted,               \* FALSE once an uncaught error has unmounted the React tree
    gpsPending,            \* getCurrentPosition calls of handleGps awaiting their callback
    pollTimers,            \* live intervals of the poll effect, each with the request
                           \* and the cursor its callback has captured
    quota,                 \* TRUE once sessionStorage refuses to store the chat state
    adminView,             \* App's adminView: the dashboard is shown, not ChatPanel
    failed,                \* history: per client, the cursor at the last poll failure
                           \* it has handled and whether no other poll was on its way
    \* ---- participant: dialogue channel ----
    status,                \* chatSlice status, "idle" or "sending"
    error,                 \* chatSlice error: NULL, or the message the banner shows
    dialogue,              \* texts POSTed to /api/message, in order
    dialoguePending,       \* sendMessage thunks of the live page awaiting their reply
    \* ---- a client that reads one request with read_since ----
    readCursor,            \* k, the highest id returned so far
    readLog,               \* the messages received, in the order received
    readCall,              \* the call in progress, [phase, request_id, after_id, messages]
    \* ---- operator console: AdminPanel state ----
    username,              \* the operator logged in, or the last one after a logout
    token,                 \* FALSE once the operator has logged out (token "")
    adminTimers,           \* live intervals of the console's message poll effect
    adminRequests,         \* requests, the queue as last listed
    selectedId,
    adminMessages,         \* messages of the selected request
    adminLastMessageId,    \* lastMessageId
    adminOutbox,           \* requests sent by the console, not yet served
    adminInbox,            \* responses on their way to a callback of the console
    \* ---- history, read only by the properties ----
    served,                \* status requests and closure notes since the last teardown,
                           \* in the order the relay served them
    restoredLen,           \* length of the rendered list when the current page had loaded
    teardown               \* what closeHandoff has done on the current page, in order

\* no poll failure handled yet
NoFailure == [seen |-> FALSE, cursor |-> 0, alone |-> FALSE]

storeVars == <<requests, handoffMessages>>
netVars == <<outbox, inbox>>
chatVars == <<sessionId, messages, handoffActive, handoffRequestId, handoffLastMessageId,
              location>>
pageVars == <<ignoreHandoffIds, closingRef, reopenFlag, storedRequestId, persisted, page,
              localIds, mounted, gpsPending, pollTimers>>
envVars == <<quota, adminView, failed>>
dialogueVars == <<status, error, dialogue, dialoguePending>>
readerVars == <<readCursor, readLog, readCall>>
consoleVars == <<username, token, adminTimers, adminRequests, selectedId, adminMessages, adminLastMessageId,
                 adminOutbox, adminInbox>>
participantVars == <<netVars, chatVars, pageVars, envVars, dialogueVars, served, restoredLen,
                     teardown>>
vars == <<storeVars, participantVars, readerVars, consoleVars>>

(***************************************************************************)
(* Relay Service, written from the specification (sections 3, 4.1, 5).     *)
(***************************************************************************)
IsClosureNote(m) ==
    m.sender = "system" /\ m.text \in {SessionClosedText, RelayClosedText}

ActiveRequestIds(reqs, conv) ==
    {i \in 1..Len(reqs) : reqs[i].conversation_id = conv /\ reqs[i].status # "closed"}

Min(S) == CHOOSE x \in S : \A y \in S : x <= y

\* A raw value of the JSON of a request, as JavaScript reads it: the key is
\* missing (undefined), or it holds null, a number, or a string of code units.
Undefined == [type |-> "undefined", chars |-> <<>>, num |-> 0]
Null == [type |-> "null", chars |-> <<>>, num |-> 0]
Num(n) == [type |-> "number", chars |-> <<>>, num |-> n]
Str(chars) == [type |-> "string", chars |-> chars, num |-> 0]

\* a request as create_or_get_active creates it; the tags of the triggering
\* context are absent
NewRequest(conv) ==
    [conversation_id |-> conv, status |-> "open", assigned_to |-> NULL,
     last_message_sender |-> NULL, reopened |-> FALSE,
     user_status |-> NULL, risk_score |-> Undefined]

\* create_or_get_active(conversation_id): the existing non-closed request, else
\* a new one in state open.  Result: [id, requests].
CreateOrGetActive(reqs, conv) ==
    IF ActiveRequestIds(reqs, conv) # {}
    THEN [id |-> Min(ActiveRequestIds(reqs, conv)), requests |-> reqs]
    ELSE [id |-> Len(reqs) + 1, requests |-> Append(reqs, NewRequest(conv))]

\* a rule that lets every operator act on a request that is not closed
AnyOperatorAllowed(r, actor) ==
    \/ actor \notin Operators
    \/ actor = "admin"
    \/ r.status # "closed"

\* Assignment rule: a non-privileged operator may not act on a request assigned
\* to a different operator; a closed request is read-only for non-administrators.
AssignmentRuleAllows(r, actor) ==
    \/ actor \notin Operators
    \/ actor = "admin"
    \/ /\ r.assigned_to \in {NULL, actor}
       /\ r.status # "closed"

\* a relay that validates no edge
AnyEdge(r, to, actor) == TRUE

\* open -> assigned -> closed, assigned -> open, and closed -> open exactly
\* once, for the recovery flow of the participant (actor NULL).
LegalEdge(r, to, actor) ==
    \/ r.status = "open" /\ to = "assigned" /\ actor \in Operators
    \/ r.status = "assigned" /\ to = "closed"
    \/ r.status = "assigned" /\ to = "open"
    \/ r.status = "closed" /\ to = "open" /\ actor \notin Operators /\ ~r.reopened

StoreMessage(msgs, rid, sender, text) ==
    Append(msgs, [id |-> Len(msgs) + 1, request_id |-> rid,
                  sender |-> sender, text |-> text])

\* transition(request_id, target_status, actor, suppress_close_message).
\* assigned_to is the actor of an assignment and null in every other status.
\* Result: [ok, requests, messages].
Transition(reqs, msgs, rid, to, actor, suppress) ==
    LET r == reqs[rid]
        same == [ok |-> TRUE, requests |-> reqs, messages |-> msgs]
        rejected == [ok |-> FALSE, requests |-> reqs, messages |-> msgs]
    IN  IF rid \notin 1..Len(reqs) THEN rejected
        ELSE IF r.status = to /\ to \in {"closed", "open"} THEN same
        ELSE IF ~AssignmentRuleAllows(r, actor) THEN rejected
        ELSE IF ~LegalEdge(r, to, actor) THEN rejected
        ELSE [ok |-> TRUE,
              requests |-> [reqs EXCEPT ![rid].status = to,
                              ![rid].assigned_to =
                                  IF to = "assigned" THEN actor ELSE NULL,
                              ![rid].reopened =
                                  r.reopened \/ r.status = "closed"],
              messages |-> IF to = "closed" /\ ~suppress
                           THEN StoreMessage(msgs, rid, "system", RelayClosedText)
                           ELSE msgs]

\* an append that does not look at the status of the request
AppendToAny(reqs, msgs, rid, sender, text, actor) ==
    IF rid \notin 1..Len(reqs)
    THEN [ok |-> FALSE, id |-> 0, requests |-> reqs, messages |-> msgs]
    ELSE [ok |-> TRUE, id |-> Len(msgs) + 1,
          requests |-> [reqs EXCEPT ![rid].last_message_sender = sender],
          messages |-> StoreMessage(msgs, rid, sender, text)]

\* append_message(request_id, sender, text): rejected on a closed request except
\* for the system closure note.  Result: [ok, id, requests, messages].
AppendMessage(reqs, msgs, rid, sender, text, actor) ==
    LET r == reqs[rid]
        rejected == [ok |-> FALSE, id |-> 0, requests |-> reqs, messages |-> msgs]
        note == [sender |-> sender, text |-> text]
    IN  IF rid \notin 1..Len(reqs) THEN rejected
        ELSE IF r.status = "closed" /\ ~IsClosureNote(note) THEN rejected
        ELSE IF r.status # "closed" /\ ~AssignmentRuleAllows(r, actor) THEN rejected
        ELSE [ok |-> TRUE, id |-> Len(msgs) + 1,
              requests |-> [reqs EXCEPT ![rid].last_message_sender = sender],
              messages |-> StoreMessage(msgs, rid, sender, text)]

\* read_since(request_id, after_id): the messages of the request with
\* id > after_id, in ascending id order.
ReadSince(msgs, rid, after) ==
    SelectSeq(msgs, LAMBDA m : m.request_id = rid /\ m.id > after)


(***************************************************************************)
(* Requests and responses in flight.                                       *)
(***************************************************************************)
\* One record shape for every request of the participant.  then names the
\* callback waiting for the response, page the page load that sent it, tag
\* tells two otherwise equal polls apart.
Request(kind, rid, after, sender, text, to, suppress, then, tag) ==
    [kind |-> kind, request_id |-> rid, after_id |-> after, sender |-> sender,
     text |-> text, status |-> to, suppress |-> suppress, then |-> then,
     conversation_id |-> sessionId, page |-> page, tag |-> tag]

\* api.js getActiveHandoffRequest(conversationId)
GetActiveHandoffRequest(then, text) ==
    Request("active", NoRequest, 0, NULL, text, NULL, FALSE, then, 0)

\* api.js sendHandoffMessage({request_id, sender: "user", text})
SendHandoffMessage(rid, text) ==
    Request("message", rid, 0, "user", text, NULL, FALSE, "deliver", 0)

\* api.js getHandoffMessages(requestId, afterId)
PollsInFlight ==
    {q \in outbox : q.kind = "poll"} \cup {p \in inbox : p.then = "poll"}

FreeTag == Min({t \in 1..(MaxPolls + 1) : \A q \in PollsInFlight : q.tag # t})

GetHandoffMessages(rid, after) ==
    Request("poll", rid, after, NULL, NULL, NULL, FALSE, "poll", FreeTag)

Response(q, ok, id, msgs) ==
    [then |-> q.then, page |-> q.page, tag |-> q.tag, ok |-> ok, id |-> id,
     text |-> q.text, messages |-> msgs]

(***************************************************************************)
(* chatSlice reducers.                                                     *)
(***************************************************************************)
\* createId(): a fresh id, never an id of the Store
CreateId == 0 - (localIds + 1)

\* an addUserMessage that pushes the text twice
AddUserMessageTwice(msgs, text) ==
    msgs \o <<[id |-> CreateId, sender |-> "user", text |-> text],
              [id |-> CreateId, sender |-> "user", text |-> text]>>

\* addUserMessage
AddUserMessage(msgs, text) ==
    Append(msgs, [id |-> CreateId, sender |-> "user", text |-> text])

\* addIncomingMessages
AddIncomingMessages(msgs, incoming) == msgs \o incoming

\* removeSystemMessageByText
RemoveSystemMessageByText(msgs, text) ==
    SelectSeq(msgs, LAMBDA m : ~(m.sender = "system" /\ m.text = text))

\* HANDOFF_TRIGGERS
HANDOFF_TRIGGERS ==
    <<"connecting you to a human operator", "high risk detected",
      "waiting for operator", "human operator">>

\* what the dialogue engine may answer: texts with a trigger phrase in lower
\* case, in other case, inside a longer word, texts with none, and no text
ReplyTexts ==
    {"ok", EscalationText, "High Risk Detected.", "WAITING FOR OPERATOR",
     "Inhuman operators", "human  operator", ""}

\* the code units of a text, for the texts the model handles as replies or
\* as phrases
Chars(text) ==
    CASE
         text = "ok" -> <<"o", "k">>
      [] text = EscalationText ->
             <<"c", "o", "n", "n", "e", "c", "t", "i", "n", "g", " ", "y",
               "o", "u", " ", "t", "o", " ", "a", " ", "h", "u", "m", "a",
               "n", " ", "o", "p", "e", "r", "a", "t", "o", "r">>
      [] text = "high risk detected" ->
             <<"h", "i", "g", "h", " ", "r", "i", "s", "k", " ", "d", "e",
               "t", "e", "c", "t", "e", "d">>
      [] text = "waiting for operator" ->
             <<"w", "a", "i", "t", "i", "n", "g", " ", "f", "o", "r", " ",
               "o", "p", "e", "r", "a", "t", "o", "r">>
      [] text = "human operator" ->
             <<"h", "u", "m", "a", "n", " ", "o", "p", "e", "r", "a", "t",
               "o", "r">>
      [] text = "High Risk Detected." ->
             <<"H", "i", "g", "h", " ", "R", "i", "s", "k", " ", "D", "e",
               "t", "e", "c", "t", "e", "d", ".">>
      [] text = "WAITING FOR OPERATOR" ->
             <<"W", "A", "I", "T", "I", "N", "G", " ", "F", "O", "R", " ",
               "O", "P", "E", "R", "A", "T", "O", "R">>
      [] text = "Inhuman operators" ->
             <<"I", "n", "h", "u", "m", "a", "n", " ", "o", "p", "e", "r",
               "a", "t", "o", "r", "s">>
      [] text = "human  operator" ->
             <<"h", "u", "m", "a", "n", " ", " ", "o", "p", "e", "r", "a",
               "t", "o", "r">>
      [] text = "" -> <<>>

UpperCase ==
    <<"A", "B", "C", "D", "E", "F", "G", "H", "I", "J", "K", "L", "M",
      "N", "O", "P", "Q", "R", "S", "T", "U", "V", "W", "X", "Y", "Z">>

LowerCase ==
    <<"a", "b", "c", "d", "e", "f", "g", "h", "i", "j", "k", "l", "m",
      "n", "o", "p", "q", "r", "s", "t", "u", "v", "w", "x", "y", "z">>

\* String.prototype.toLowerCase, on code units
ToLowerCase(chars) ==
    [i \in 1..Len(chars) |->
        IF \E k \in 1..Len(UpperCase) : UpperCase[k] = chars[i]
        THEN LowerCase[CHOOSE k \in 1..Len(UpperCase) : UpperCase[k] = chars[i]]
        ELSE chars[i]]

\* String.prototype.includes, on code units
Includes(chars, phrase) ==
    \E i \in 0..(Len(chars) - Len(phrase)) :
        SubSeq(chars, i + 1, i + Len(phrase)) = phrase

\* a detectHandoff that compares the text as it is written
DetectHandoffCaseSensitive(text) ==
    IF text = "" THEN FALSE
    ELSE \E k \in 1..Len(HANDOFF_TRIGGERS) :
             Includes(Chars(text), Chars(HANDOFF_TRIGGERS[k]))

\* detectHandoff
DetectHandoff(text) ==
    IF text = "" THEN FALSE
    ELSE LET lowered == ToLowerCase(Chars(text))
         IN  \E k \in 1..Len(HANDOFF_TRIGGERS) :
                 Includes(lowered, Chars(HANDOFF_TRIGGERS[k]))

\* what App's persist effect writes to sessionStorage after a render
Snapshot(sid, msgs, active, rid, last, loc) ==
    [sessionId |-> sid, messages |-> msgs, handoffActive |-> active,
     handoffRequestId |-> rid, handoffLastMessageId |-> last, location |-> loc]

\* addSystemMessage: not appended when the last entry is the same notice
AddSystemMessage(msgs, text) ==
    IF Len(msgs) > 0 /\ msgs[Len(msgs)].sender = "system" /\ msgs[Len(msgs)].text = text
    THEN msgs
    ELSE Append(msgs, [id |-> CreateId, sender |-> "system", text |-> text])


(***************************************************************************)
(* ChatPanel effects.                                                      *)
(***************************************************************************)
\* the requests closeHandoff queues (sendBeacon, or fetch with keepalive)
CloseNote(rid) ==
    Request("message", rid, 0, "system", SessionClosedText, NULL, FALSE, "none", 0)

CloseStatus(rid) ==
    Request("status", rid, 0, NULL, NULL, "closed", FALSE, "none", 0)

\* the fetch of the reopen effect
ReopenStatus(rid) ==
    Request("status", rid, 0, NULL, NULL, "open", TRUE, "none", 0)

\* a reopen effect without the check of the transient flag
ReopenUnguarded(flag, stored, msgs, active, rid, last) ==
    LET requestId == IF rid # NoRequest THEN rid ELSE stored
    IN  IF requestId = NoRequest
        THEN [reopenFlag |-> flag, storedRequestId |-> stored, messages |-> msgs,
              handoffRequestId |-> rid, handoffLastMessageId |-> last,
              sent |-> {}, mounted |-> TRUE]
        ELSE [reopenFlag |-> FALSE, storedRequestId |-> NoRequest,
              messages |-> RemoveSystemMessageByText(msgs, SessionClosedText),
              handoffRequestId |-> requestId,
              handoffLastMessageId |-> IF active THEN last ELSE 0,
              sent |-> {ReopenStatus(requestId)}, mounted |-> TRUE]

\* a reopen effect that starts the thread again for an active client too
ReopenFromZero(flag, stored, msgs, active, rid, last) ==
    LET requestId == IF rid # NoRequest THEN rid ELSE stored
    IN  IF ~flag \/ requestId = NoRequest
        THEN [reopenFlag |-> flag, storedRequestId |-> stored, messages |-> msgs,
              handoffRequestId |-> rid, handoffLastMessageId |-> last,
              sent |-> {}, mounted |-> TRUE]
        ELSE [reopenFlag |-> FALSE, storedRequestId |-> NoRequest,
              messages |-> RemoveSystemMessageByText(msgs, SessionClosedText),
              handoffRequestId |-> requestId, handoffLastMessageId |-> 0,
              sent |-> IF active THEN {ReopenStatus(requestId)} ELSE {},
              mounted |-> active]

\* The reopen effect (deps handoffActive, handoffRequestId), run on the state a
\* render shows.  In the branch for a client that is not active the effect
\* calls setHandoffActive, which ChatPanel does not import: the call throws
\* after the two dispatches before it, no reopen is fetched, and the uncaught
\* error unmounts the tree.
ReopenEffect(flag, stored, msgs, active, rid, last) ==
    LET requestId == IF rid # NoRequest THEN rid ELSE stored
        idle == [reopenFlag |-> flag, storedRequestId |-> stored, messages |-> msgs,
                 handoffRequestId |-> rid, handoffLastMessageId |-> last,
                 sent |-> {}, mounted |-> TRUE]
        cleaned == RemoveSystemMessageByText(msgs, SessionClosedText)
    IN  IF ~flag THEN idle
        ELSE IF requestId = NoRequest THEN idle
        ELSE IF ~active
        THEN [reopenFlag |-> FALSE, storedRequestId |-> NoRequest, messages |-> cleaned,
              handoffRequestId |-> requestId, handoffLastMessageId |-> 0,
              sent |-> {}, mounted |-> FALSE]
        ELSE [reopenFlag |-> FALSE, storedRequestId |-> NoRequest, messages |-> cleaned,
              handoffRequestId |-> rid, handoffLastMessageId |-> last,
              sent |-> {ReopenStatus(requestId)}, mounted |-> TRUE]

\* The active-request effect (deps handoffActive, handoffRequestId, sessionId).
ActiveRequestEffect(active, rid) ==
    IF active /\ rid = NoRequest THEN {GetActiveHandoffRequest("effect", NULL)} ELSE {}

\* clearInterval(interval): the interval is live no more
clearIntervalSkipped(timers, interval) == timers

clearInterval(timers, interval) == timers \ {interval}

\* an interval of a message poll, with what its callback has captured
Interval(rid, cursor) == [request_id |-> rid, after_id |-> cursor]

\* The poll effect of ChatPanel (deps handoffActive, handoffRequestId,
\* handoffLastMessageId) after a render that shows active, rid and last: timers
\* are the intervals live before it, those of an earlier page being gone with
\* the page.  Once a dependency has changed, or ChatPanel leaves the page, the
\* cleanup of the last run clears the interval that run has created; the body
\* creates one for an active handoff with a known request.
PollEffect(timers, mount, stays, view, active, rid, last) ==
    LET own == Interval(handoffRequestId, handoffLastMessageId)
        same == ~mount /\ <<active, rid, last>> =
                             <<handoffActive, handoffRequestId, handoffLastMessageId>>
    IN  IF ~stays THEN clearInterval(timers, own)
        ELSE IF view \/ same THEN timers
        ELSE clearInterval(timers, own)
                 \cup (IF active /\ rid # NoRequest THEN {Interval(rid, last)} ELSE {})

\* The effects that follow a render: ChatPanel's, all of them after a mount or
\* a change of handoffActive or handoffRequestId, none of them otherwise and
\* none while view (adminView) keeps ChatPanel off the page; then App's
\* persist effect.  sent are requests the handler itself has issued, pending
\* the requests already on their way, pg the page that sends.
EffectsOf(sid, view, msgs, active, rid, last, loc, depsChanged, sent, pg, pending) ==
    LET e == IF depsChanged /\ ~view
             THEN ReopenEffect(reopenFlag, storedRequestId, msgs, active, rid, last)
             ELSE [reopenFlag |-> reopenFlag, storedRequestId |-> storedRequestId,
                   messages |-> msgs, handoffRequestId |-> rid,
                   handoffLastMessageId |-> last, sent |-> {}, mounted |-> TRUE]
        resolve == IF depsChanged /\ ~view
                   THEN ActiveRequestEffect(active, rid) ELSE {}
    IN  /\ messages' = e.messages
        /\ handoffActive' = active
        /\ handoffRequestId' = e.handoffRequestId
        /\ handoffLastMessageId' = e.handoffLastMessageId
        /\ location' = loc
        /\ reopenFlag' = e.reopenFlag
        /\ storedRequestId' = e.storedRequestId
        /\ mounted' = e.mounted
        /\ outbox' = pending \cup {[q EXCEPT !.page = pg] : q \in sent \cup resolve \cup e.sent}
        /\ persisted' = IF e.mounted /\ ~quota
                        THEN Snapshot(sid, e.messages, active, e.handoffRequestId,
                                      e.handoffLastMessageId, loc)
                        ELSE persisted
        /\ pollTimers' = PollEffect(IF pg = page THEN pollTimers ELSE {},
                                    pg # page \/ (adminView /\ ~view),
                                    e.mounted, view, active, e.handoffRequestId,
                                    e.handoffLastMessageId)

\* the effects after a render that leaves the sessionId as it is
Effects(view, msgs, active, rid, last, loc, depsChanged, sent, pg, pending) ==
    EffectsOf(sessionId, view, msgs, active, rid, last, loc, depsChanged, sent, pg,
              pending)

\* a render of the page as it is shown
Render(msgs, active, rid, last, loc, depsChanged, sent, pg, pending) ==
    Effects(adminView, msgs, active, rid, last, loc, depsChanged, sent, pg, pending)

\* the handler of the poll effect's interval is registered
PollTimerLive == mounted /\ ~adminView /\ handoffActive /\ handoffRequestId # NoRequest

\* closeHandoff is registered for beforeunload and pagehide
TeardownRegistered ==
    mounted /\ ~adminView /\ handoffActive /\ handoffRequestId # NoRequest


(***************************************************************************)
(* Participant: handlers and callbacks.                                    *)
(***************************************************************************)
\* the texts submitted so far: the rendered list keeps every one of them
LocalUserTexts == {messages[i].text : i \in 1..Len(messages)}
                      \cap {UserText(n) : n \in 1..MaxUserTexts}

\* ChatPanel.handleSend(text), called by the composer.  The composer is
\* disabled while a dialogue request is pending and the handoff is not active.
HandleSend ==
    /\ mounted /\ ~adminView
    /\ handoffActive \/ status # "sending"
    /\ Cardinality(LocalUserTexts) < MaxUserTexts
    /\ LET text == UserText(Cardinality(LocalUserTexts) + 1)
           shown == AddUserMessage(messages, text)
       IN  /\ localIds' = localIds + 1
           /\ IF handoffActive
              THEN /\ Render(shown, handoffActive, handoffRequestId, handoffLastMessageId,
                             location, FALSE,
                             IF handoffRequestId # NoRequest
                             THEN {SendHandoffMessage(handoffRequestId, text)}
                             ELSE {GetActiveHandoffRequest("send", text)},
                             page, outbox)
                   /\ UNCHANGED dialogueVars
              ELSE /\ Render(shown, handoffActive, handoffRequestId, handoffLastMessageId,
                             location, FALSE, {}, page, outbox)
                   /\ status' = "sending"
                   /\ error' = NULL
                   /\ dialogue' = Append(dialogue, text)
                   /\ dialoguePending' = dialoguePending + 1
    /\ UNCHANGED <<storeVars, inbox, sessionId, ignoreHandoffIds, closingRef, page,
                   gpsPending, served, restoredLen, teardown>>
    /\ UNCHANGED <<readerVars, consoleVars, envVars>>

\* normalizeResponses: an entry of the payload is [text, buttons], text "" for
\* an entry without text; entries with neither text nor buttons are dropped
NormalizeResponses(responses) ==
    LET kept == SelectSeq(responses, LAMBDA entry : entry.text # "" \/ entry.buttons)
    IN  [i \in 1..Len(kept) |->
            [id |-> 0 - (localIds + i), sender |-> "bot", text |-> kept[i].text]]

\* sendMessage.fulfilled with the payload the thunk has returned: the replies
\* of the dialogue engine are appended and a reply with a trigger phrase
\* switches the handoff on.
SendMessageFulfilledWith(payload) ==
    /\ mounted
    /\ dialoguePending > 0
    /\ LET normalized == NormalizeResponses(payload)
           active == IF \E i \in 1..Len(normalized) : DetectHandoff(normalized[i].text)
                     THEN TRUE ELSE handoffActive
       IN  /\ Render(messages \o normalized, active, handoffRequestId,
                     handoffLastMessageId, location, active # handoffActive, {}, page,
                     outbox)
           /\ localIds' = localIds + Len(normalized)
    /\ status' = "idle"
    /\ dialoguePending' = dialoguePending - 1
    /\ UNCHANGED <<storeVars, inbox, sessionId, ignoreHandoffIds, closingRef, page,
                   gpsPending, error, dialogue, served, restoredLen, teardown>>
    /\ UNCHANGED <<readerVars, consoleVars, envVars>>

\* sendMessage.fulfilled for a payload of one reply, a text without buttons
SendMessageFulfilled(reply) ==
    SendMessageFulfilledWith(<<[text |-> reply, buttons |-> FALSE]>>)

\* .then of getActiveHandoffRequest, in the active-request effect ("effect") and
\* in handleSend ("send", which then delivers the text)
ReceiveActiveRequest(p) ==
    /\ mounted
    /\ p \in inbox /\ p.then \in {"effect", "send"}
    /\ inbox' = inbox \ {p}
    /\ Render(messages, handoffActive, p.id, handoffLastMessageId, location,
              p.id # handoffRequestId,
              IF p.then = "send" THEN {SendHandoffMessage(p.id, p.text)} ELSE {},
              page, outbox)
    /\ UNCHANGED <<storeVars, sessionId, ignoreHandoffIds, closingRef, page, localIds,
                   gpsPending, dialogueVars, served, restoredLen, teardown>>
    /\ UNCHANGED <<readerVars, consoleVars, envVars>>

\* .then of sendHandoffMessage in handleSend
ReceiveDelivered(p) ==
    /\ mounted
    /\ p \in inbox /\ p.then = "deliver"
    /\ inbox' = inbox \ {p}
    /\ ignoreHandoffIds' = ignoreHandoffIds \cup {p.id}
    /\ UNCHANGED <<storeVars, outbox, chatVars, closingRef, reopenFlag, storedRequestId,
                   persisted, page, localIds, mounted, pollTimers, gpsPending,
                   dialogueVars, served, restoredLen, teardown>>
    /\ UNCHANGED <<readerVars, consoleVars, envVars>>


\* the callback of the poll effect's setInterval: one more poll, with the
\* request and the cursor of the render that created the interval
PollTick ==
    /\ Cardinality(PollsInFlight) < MaxPolls
    /\ \E interval \in pollTimers :
           outbox' = outbox \cup
               {GetHandoffMessages(interval.request_id, interval.after_id)}
    /\ UNCHANGED <<storeVars, inbox, chatVars, pageVars, dialogueVars, served, restoredLen, teardown>>
    /\ UNCHANGED <<readerVars, consoleVars, envVars>>

\* a filter and map that hands on the sender as the relay names it
FormattedUnmapped(incoming, ignore) ==
    LET kept == SelectSeq(incoming,
                    LAMBDA m : ~(m.sender = "user" /\ m.id \in ignore))
    IN  [i \in 1..Len(kept) |->
            [id |-> kept[i].id, sender |-> kept[i].sender, text |-> kept[i].text]]

\* the filter and map of the poll callback: own messages named in the ignore
\* set are dropped, agent becomes bot
Formatted(incoming, ignore) ==
    LET kept == SelectSeq(incoming,
                    LAMBDA m : ~(m.sender = "user" /\ m.id \in ignore))
    IN  [i \in 1..Len(kept) |->
            [id |-> kept[i].id,
             sender |-> IF kept[i].sender = "agent" THEN "bot" ELSE kept[i].sender,
             text |-> kept[i].text]]

\* a cursor that takes the id of the first message of the result
FirstId(msgs) == msgs[1].id

\* the id of the last message of a non-empty result, the next cursor
LastId(msgs) == msgs[Len(msgs)].id

\* a pruning that keeps the id of the last message
PruneBelow(ignore, lastId) == {id \in ignore : ~(id < lastId)}

\* ignoreHandoffIdsRef.current.forEach: the ids up to lastId are deleted
Prune(ignore, lastId) == {id \in ignore : ~(id <= lastId)}

\* .then of getHandoffMessages in the poll callback
ReceivePoll(p) ==
    /\ mounted
    /\ p \in inbox /\ p.then = "poll" /\ p.ok
    /\ inbox' = inbox \ {p}
    /\ IF Len(p.messages) = 0
       THEN UNCHANGED <<outbox, chatVars, ignoreHandoffIds, reopenFlag, storedRequestId,
                        persisted, mounted, pollTimers>>
       ELSE LET lastId == LastId(p.messages)
            IN  /\ Render(AddIncomingMessages(messages,
                                Formatted(p.messages, ignoreHandoffIds)),
                          handoffActive, handoffRequestId, lastId, location, FALSE, {},
                          page, outbox)
                /\ ignoreHandoffIds' = Prune(ignoreHandoffIds, lastId)
                /\ UNCHANGED sessionId
    /\ UNCHANGED <<storeVars, closingRef, page, localIds, gpsPending, dialogueVars, served,
                   restoredLen, teardown>>
    /\ UNCHANGED <<readerVars, consoleVars, envVars>>

\* a catch that reports the failure in the rendered list
PollSurfaced(p) ==
    /\ p \in inbox /\ p.then = "poll" /\ ~p.ok
    /\ inbox' = inbox \ {p}
    /\ Render(AddSystemMessage(messages, UnableToContact), handoffActive,
              handoffRequestId, handoffLastMessageId, location, FALSE, {}, page, outbox)
    /\ localIds' = localIds + 1
    /\ failed' = [failed EXCEPT !.participant =
                      [seen |-> TRUE, cursor |-> handoffLastMessageId,
                       alone |-> PollsInFlight \ {p} = {}]]
    /\ UNCHANGED <<storeVars, sessionId, ignoreHandoffIds, closingRef, page, gpsPending,
                   quota, adminView, dialogueVars, served, restoredLen, teardown>>
    /\ UNCHANGED <<readerVars, consoleVars>>

\* .catch(() => null) of the poll callback: getHandoffMessages has thrown, for
\* a network error or a response that is not OK
PollRejected(p) ==
    /\ p \in inbox /\ p.then = "poll" /\ ~p.ok
    /\ inbox' = inbox \ {p}
    /\ failed' = [failed EXCEPT !.participant =
                      [seen |-> TRUE, cursor |-> handoffLastMessageId,
                       alone |-> PollsInFlight \ {p} = {}]]
    /\ UNCHANGED <<storeVars, outbox, chatVars, pageVars, quota, adminView, dialogueVars,
                   served, restoredLen, teardown>>
    /\ UNCHANGED <<readerVars, consoleVars>>

(***************************************************************************)
(* App: the location panel and the quick actions.  Their buttons are       *)
(* disabled only while the disclaimer is not accepted; the quick actions   *)
(* also while the handoff is active.                                       *)
(***************************************************************************)
\* App's hasUserMessage
HasUserMessage == \E i \in 1..Len(messages) : messages[i].sender = "user"

\* the command sent instead of the text when a location was known before
ChangeLocation(text) == "/change_location" \o text

\* addUserMessage({text: shown}) and sendMessage({text: payload}), dispatched
\* one after the other
PostToDialogue(shown, payload, loc) ==
    /\ Len(dialogue) < MaxDialogue
    /\ Render(AddUserMessage(messages, shown), handoffActive, handoffRequestId,
              handoffLastMessageId, loc, FALSE, {}, page, outbox)
    /\ localIds' = localIds + 1
    /\ status' = "sending"
    /\ error' = NULL
    /\ dialogue' = Append(dialogue, payload)
    /\ dialoguePending' = dialoguePending + 1

\* App.handleLocationSave
HandleLocationSave ==
    /\ mounted /\ ~adminView
    /\ IF HasUserMessage
       THEN PostToDialogue(LocationText,
                           IF location # NULL THEN ChangeLocation(LocationText)
                           ELSE LocationText,
                           LocationText)
       ELSE /\ location # LocationText
            /\ Render(messages, handoffActive, handoffRequestId, handoffLastMessageId,
                      LocationText, FALSE, {}, page, outbox)
            /\ UNCHANGED <<localIds, dialogueVars>>
    /\ UNCHANGED <<storeVars, inbox, sessionId, ignoreHandoffIds, closingRef, page,
                   gpsPending, served, restoredLen, teardown>>
    /\ UNCHANGED <<readerVars, consoleVars, envVars>>

\* App.handleGps: getCurrentPosition is called; its callbacks keep the
\* hasUserMessage and the location of the render that was clicked
HandleGps ==
    /\ mounted /\ ~adminView
    /\ gpsPending = {}
    /\ gpsPending' = {[hasUserMessage |-> HasUserMessage, hadLocation |-> location # NULL]}
    /\ UNCHANGED <<storeVars, netVars, chatVars, ignoreHandoffIds, closingRef, reopenFlag,
                   storedRequestId, persisted, page, localIds, mounted, pollTimers,
                   dialogueVars, served, restoredLen, teardown>>
    /\ UNCHANGED <<readerVars, consoleVars, envVars>>

\* the success callback of handleGps, after /api/reverse has answered with a
\* label or has failed (label "")
GpsResolved(g, label) ==
    /\ mounted
    /\ g \in gpsPending
    /\ gpsPending' = gpsPending \ {g}
    /\ LET shown == IF label # "" THEN label ELSE Coords
       IN  IF g.hasUserMessage
           THEN PostToDialogue(shown,
                               IF g.hadLocation THEN ChangeLocation(shown) ELSE shown,
                               shown)
           ELSE /\ Render(messages, handoffActive, handoffRequestId, handoffLastMessageId,
                          shown, FALSE, {}, page, outbox)
                /\ UNCHANGED <<localIds, dialogueVars>>
    /\ UNCHANGED <<storeVars, inbox, sessionId, ignoreHandoffIds, closingRef, page,
                   served, restoredLen, teardown>>
    /\ UNCHANGED <<readerVars, consoleVars, envVars>>

\* the error callback of handleGps
GpsDenied(g) ==
    /\ mounted
    /\ g \in gpsPending
    /\ gpsPending' = gpsPending \ {g}
    /\ LET shown == AddSystemMessage(messages, GpsDeniedText)
       IN  /\ Render(shown, handoffActive, handoffRequestId, handoffLastMessageId,
                     location, FALSE, {}, page, outbox)
           /\ localIds' = IF shown = messages THEN localIds ELSE localIds + 1
    /\ UNCHANGED <<storeVars, inbox, sessionId, ignoreHandoffIds, closingRef, page,
                   dialogueVars, served, restoredLen, teardown>>
    /\ UNCHANGED <<readerVars, consoleVars, envVars>>

\* App.handleQuickAction(payload)
HandleQuickAction ==
    /\ mounted /\ ~adminView
    /\ ~handoffActive
    /\ PostToDialogue(QuickActionText, QuickActionText, location)
    /\ UNCHANGED <<storeVars, inbox, sessionId, ignoreHandoffIds, closingRef, page,
                   gpsPending, served, restoredLen, teardown>>
    /\ UNCHANGED <<readerVars, consoleVars, envVars>>

\* sendMessage.rejected
SendMessageRejected ==
    /\ mounted
    /\ dialoguePending > 0
    /\ status' = "idle"
    /\ error' = UnableToContact
    /\ dialoguePending' = dialoguePending - 1
    /\ UNCHANGED <<storeVars, netVars, chatVars, pageVars, dialogue, served, restoredLen, teardown>>
    /\ UNCHANGED <<readerVars, consoleVars, envVars>>

\* sessionStorage.setItem(key, value)
SetItem(key, value) == [op |-> "setItem", target |-> key, value |-> value]

\* navigator.sendBeacon(url, blob) if the browser has it, else
\* fetch(url, {..., keepalive: true}).catch(() => null); neither is awaited
Issue(beacon, url, request) ==
    [op |-> IF beacon THEN "sendBeacon" ELSE "fetch", target |-> url, value |-> request]

\* a closeHandoff that closes before it leaves the note
closeHandoffCloseFirst(rid, beacon) ==
    <<SetItem("crisos_handoff_closed_on_unload", TRUE),
      SetItem("crisos_handoff_request_id", rid),
      Issue(beacon, "/api/handoff/requests/status", CloseStatus(rid)),
      Issue(beacon, "/api/handoff/messages", CloseNote(rid))>>

\* the body of closeHandoff past its guard, statement by statement
closeHandoff(rid, beacon) ==
    <<SetItem("crisos_handoff_closed_on_unload", TRUE),
      SetItem("crisos_handoff_request_id", rid),
      Issue(beacon, "/api/handoff/messages", CloseNote(rid)),
      Issue(beacon, "/api/handoff/requests/status", CloseStatus(rid))>>

\* the last value a run of statements has stored under key
StoredBy(steps, key, before) ==
    LET writes == {i \in 1..Len(steps) : steps[i].op = "setItem" /\ steps[i].target = key}
    IN  IF writes = {} THEN before
        ELSE steps[CHOOSE i \in writes : \A j \in writes : j <= i].value

\* the requests a run of statements has handed to the browser
Issued(steps) ==
    {steps[i].value : i \in {j \in 1..Len(steps) : steps[j].op # "setItem"}}

\* closeHandoff, the beforeunload / pagehide listener of the teardown effect;
\* beacon tells whether the browser has navigator.sendBeacon
CloseHandoff ==
    /\ TeardownRegistered
    /\ ~closingRef
    /\ page < MaxLoads
    /\ closingRef' = TRUE
    /\ \E beacon \in BOOLEAN :
           LET steps == closeHandoff(handoffRequestId, beacon)
           IN  /\ reopenFlag' = StoredBy(steps, "crisos_handoff_closed_on_unload", reopenFlag)
               /\ storedRequestId' =
                      StoredBy(steps, "crisos_handoff_request_id", storedRequestId)
               /\ outbox' = outbox \cup Issued(steps)
               /\ teardown' = steps
    /\ served' = <<>>
    /\ UNCHANGED <<storeVars, inbox, chatVars, ignoreHandoffIds, persisted, page, localIds,
                   mounted, pollTimers, gpsPending, dialogueVars, restoredLen>>
    /\ UNCHANGED <<readerVars, consoleVars, envVars>>

\* a store that starts from baseState whatever sessionStorage holds
initialStateFromBase(persistedState) ==
    [sessionId |-> persistedState.sessionId, messages |-> <<>>, status |-> "idle",
     error |-> NULL, handoffActive |-> FALSE, handoffRequestId |-> NoRequest,
     handoffLastMessageId |-> 0, location |-> NULL]

\* initialState of chatSlice for the chat state loadPersistedState has parsed:
\* {...baseState, ...persistedState, status: "idle", error: null}; the stored
\* sessionId is never empty and messages is an array
initialState(persistedState) ==
    [sessionId |-> persistedState.sessionId, messages |-> persistedState.messages,
     status |-> "idle", error |-> NULL,
     handoffActive |-> persistedState.handoffActive,
     handoffRequestId |-> persistedState.handoffRequestId,
     handoffLastMessageId |-> persistedState.handoffLastMessageId,
     location |-> persistedState.location]

\* The tab loads the application again, at the chat or (view) at /dashboard:
\* the callbacks and refs of the old page are gone, the store starts from
\* loadPersistedState / initialState, every effect of what is shown runs once.
\* The browser has fired the teardown events of the old page before.  A poll
\* of the old page that the relay has not served yet can change nothing any
\* more (its callback is gone), so it is forgotten here.
LoadAt(view) ==
    /\ page < MaxLoads
    /\ TeardownRegistered => closingRef
    /\ page' = page + 1
    /\ inbox' = {}
    /\ ignoreHandoffIds' = {}
    /\ closingRef' = FALSE
    /\ dialoguePending' = 0
    /\ gpsPending' = {}
    /\ adminView' = view
    /\ LET state == initialState(persisted)
       IN  /\ status' = state.status
           /\ error' = state.error
           /\ sessionId' = state.sessionId
           /\ EffectsOf(state.sessionId, view, state.messages, state.handoffActive,
                        state.handoffRequestId, state.handoffLastMessageId,
                        state.location, TRUE, {}, page + 1,
                        {q \in outbox : q.kind # "poll"})
    /\ restoredLen' = Len(messages')
    /\ teardown' = <<>>
    /\ UNCHANGED <<storeVars, localIds, dialogue, served, quota, failed>>
    /\ UNCHANGED <<readerVars, consoleVars>>

\* a reload: the path, and with it isDashboardPath(), is the one of before
LoadPage == LoadAt(adminView)


\* From now on sessionStorage.setItem throws for the chat state, which has
\* outgrown what is left of the quota; App's persist effect swallows the error
\* and the entry keeps its last value.  The two short entries of closeHandoff
\* still fit.
QuotaExceeded ==
    /\ ~quota
    /\ quota' = TRUE
    /\ UNCHANGED <<storeVars, netVars, chatVars, pageVars, adminView, failed,
                   dialogueVars, served, restoredLen, teardown>>
    /\ UNCHANGED <<readerVars, consoleVars>>

\* createSessionId(): web_<time>_<random>, an id no conversation has had; the
\* number stands for the time, which no earlier id carries
SessionId(n) == "web_" \o ToString(n)

SessionIds == {SessionId(n) : n \in 1..MaxSessions}

UsedSessionIds ==
    {sessionId, persisted.sessionId}
        \cup {requests[i].conversation_id : i \in 1..Len(requests)}
        \cup {q.conversation_id : q \in outbox}

\* a clearChat that keeps the sessionId
clearChatKeepsSession(sid) ==
    [messages |-> <<>>, status |-> "idle", error |-> NULL, handoffActive |-> FALSE,
     handoffRequestId |-> NoRequest, handoffLastMessageId |-> 0,
     sessionId |-> sessionId]

\* the clearChat reducer; sid is what createSessionId() returns
clearChat(sid) ==
    [messages |-> <<>>, status |-> "idle", error |-> NULL, handoffActive |-> FALSE,
     handoffRequestId |-> NoRequest, handoffLastMessageId |-> 0, sessionId |-> sid]

\* the Reset button of ChatPanel, rendered while the handoff is not active:
\* dispatch(clearChat()), then the effects of the render that follows
HandleReset ==
    /\ mounted /\ ~adminView
    /\ ~handoffActive
    /\ \E n \in 1..MaxSessions :
           /\ \A m \in n..MaxSessions : SessionId(m) \notin UsedSessionIds
           /\ n = 1 \/ SessionId(n - 1) \in UsedSessionIds
           /\ LET next == clearChat(SessionId(n))
              IN  /\ sessionId' = next.sessionId
                  /\ status' = next.status
                  /\ error' = next.error
                  /\ EffectsOf(next.sessionId, adminView, next.messages,
                               next.handoffActive, next.handoffRequestId,
                               next.handoffLastMessageId, location,
                               handoffRequestId # NoRequest, {}, page, outbox)
    /\ UNCHANGED <<storeVars, inbox, ignoreHandoffIds, closingRef, page, localIds,
                   gpsPending, dialogue, dialoguePending, served, restoredLen, teardown>>
    /\ UNCHANGED <<readerVars, consoleVars, envVars>>

\* handlePopState after Back on the dashboard: setAdminView(isDashboardPath())
\* with the path of the chat.  App renders ChatPanel again on the same page: a
\* new instance with new refs, every effect of which runs once on the state
\* the store holds.
HandlePopState ==
    /\ mounted /\ adminView
    /\ adminView' = FALSE
    /\ closingRef' = FALSE
    /\ ignoreHandoffIds' = {}
    /\ Effects(FALSE, messages, handoffActive, handoffRequestId, handoffLastMessageId,
               location, TRUE, {}, page, outbox)
    /\ UNCHANGED <<storeVars, inbox, sessionId, page, localIds, gpsPending, quota, failed,
                   dialogueVars, served, restoredLen, teardown>>
    /\ UNCHANGED <<readerVars, consoleVars>>

\* the dashboard button of the header: pushState("/dashboard") and
\* setAdminView(true).  App renders AdminPanel in the place of ChatPanel, whose
\* effects are cleaned up: the poll interval is cleared, closeHandoff is no
\* longer a listener.  The path stays over a reload.
OpenDashboard ==
    /\ mounted /\ ~adminView
    /\ adminView' = TRUE
    /\ pollTimers' = PollEffect(pollTimers, FALSE, FALSE, TRUE, handoffActive,
                                handoffRequestId, handoffLastMessageId)
    /\ UNCHANGED <<storeVars, netVars, chatVars, ignoreHandoffIds, closingRef, reopenFlag,
                   storedRequestId, persisted, page, localIds, mounted, gpsPending, quota,
                   failed, dialogueVars, served, restoredLen, teardown>>
    /\ UNCHANGED <<readerVars, consoleVars>>


(***************************************************************************)
(* The Relay Service serves a request of the participant.                  *)
(***************************************************************************)
\* a response reaches a callback only on the page that sent the request
Answer(q, ok, id, msgs) ==
    IF q.page = page /\ q.then # "none" /\ ok
    THEN inbox \cup {Response(q, ok, id, msgs)}
    ELSE inbox

\* history of the requests the teardown handler and the reopen effect sent
Lifecycle(q) ==
    IF q.kind = "message" THEN "note"
    ELSE IF q.status = "closed" THEN "close" ELSE "reopen"

Logged(q) ==
    IF q.then = "none" /\ q.kind \in {"message", "status"}
    THEN Append(served, [op |-> Lifecycle(q), request_id |-> q.request_id,
                         from |-> requests[q.request_id].status])
    ELSE served

\* the request leaves the network; the participant is not touched
Taken(q) ==
    /\ q \in outbox
    /\ outbox' = outbox \ {q}
    /\ UNCHANGED <<chatVars, pageVars, dialogueVars, restoredLen, teardown>>
    /\ UNCHANGED <<readerVars, consoleVars, envVars>>

ServeActive(q) ==
    /\ q.kind = "active"
    /\ \/ ActiveRequestIds(requests, q.conversation_id) # {}
       \/ Len(requests) < MaxRequests
    /\ Taken(q)
    /\ LET res == CreateOrGetActive(requests, q.conversation_id)
       IN  /\ requests' = res.requests
           /\ inbox' = Answer(q, TRUE, res.id, <<>>)
    /\ UNCHANGED <<handoffMessages, served>>

ServeMessage(q) ==
    /\ q.kind = "message"
    /\ Taken(q)
    /\ LET res == AppendMessage(requests, handoffMessages, q.request_id,
                                q.sender, q.text, NULL)
       IN  /\ requests' = res.requests
           /\ handoffMessages' = res.messages
           /\ inbox' = Answer(q, res.ok, res.id, <<>>)
           /\ served' = Logged(q)

ServePoll(q) ==
    /\ q.kind = "poll"
    /\ Taken(q)
    /\ inbox' = Answer(q, TRUE, 0, ReadSince(handoffMessages, q.request_id, q.after_id))
    /\ UNCHANGED <<storeVars, served>>

\* the poll does not come back: the network fails, or the response is not OK
\* and getHandoffMessages throws
FailPoll(q) ==
    /\ q.kind = "poll"
    /\ Taken(q)
    /\ inbox' = IF q.page = page THEN inbox \cup {Response(q, FALSE, 0, <<>>)} ELSE inbox
    /\ UNCHANGED <<storeVars, served>>

ServeStatus(q) ==
    /\ q.kind = "status"
    /\ Taken(q)
    /\ LET res == Transition(requests, handoffMessages, q.request_id,
                             q.status, NULL, q.suppress)
       IN  /\ requests' = res.requests
           /\ handoffMessages' = res.messages
           /\ served' = Logged(q)
    /\ UNCHANGED inbox

RelayServe(q) ==
    \/ ServeActive(q)
    \/ ServeMessage(q)
    \/ ServePoll(q)
    \/ ServeStatus(q)

(***************************************************************************)
(* Operators acting on the Store through their consoles.                   *)
(***************************************************************************)
\* a teardown has happened: from then on the history names the operators' steps
Armed == closingRef \/ page > 0

AgentReplies ==
    Cardinality({i \in 1..Len(handoffMessages) : handoffMessages[i].sender = "agent"})

\* AdminPanel.handleStatus(status) as the relay decides it
OperatorStatus(op, rid, to) ==
    /\ rid \in 1..Len(requests)
    /\ LET res == Transition(requests, handoffMessages, rid, to, op, FALSE)
       IN  /\ res.ok
           /\ res.requests # requests
           /\ requests' = res.requests
           /\ handoffMessages' = res.messages
           /\ served' = IF Armed
                        THEN Append(served, [op |-> to, request_id |-> rid,
                                             from |-> requests[rid].status])
                        ELSE served
    /\ UNCHANGED <<netVars, chatVars, pageVars, dialogueVars, restoredLen, teardown>>
    /\ UNCHANGED <<readerVars, consoleVars, envVars>>

\* AdminPanel.handleSend as the relay decides it
OperatorReply(op, rid) ==
    /\ rid \in 1..Len(requests)
    /\ AgentReplies < MaxAgentReplies
    /\ LET res == AppendMessage(requests, handoffMessages, rid, "agent", AgentText, op)
       IN  /\ res.ok
           /\ requests' = res.requests
           /\ handoffMessages' = res.messages
    /\ UNCHANGED <<netVars, chatVars, pageVars, dialogueVars, served, restoredLen, teardown>>
    /\ UNCHANGED <<readerVars, consoleVars, envVars>>

(***************************************************************************)
(* A client that reads one request with read_since, one call after the     *)
(* other: getHandoffMessages(requestId, k), and k becomes the highest id   *)
(* returned so far.                                                        *)
(***************************************************************************)
ReaderIdle(rid) ==
    [phase |-> "idle", request_id |-> rid, after_id |-> 0, messages |-> <<>>]

\* api.js getHandoffMessages(requestId, afterId) with the cursor of the reader
ReaderCall ==
    /\ readCall.phase = "idle"
    /\ readCall' = [readCall EXCEPT !.phase = "sent", !.after_id = readCursor]
    /\ UNCHANGED <<storeVars, participantVars, readCursor, readLog, consoleVars>>

\* the relay answers the call
ReaderServe ==
    /\ readCall.phase = "sent"
    /\ readCall' = [readCall EXCEPT
                       !.phase = "answered",
                       !.messages = ReadSince(handoffMessages, readCall.request_id,
                                              readCall.after_id)]
    /\ UNCHANGED <<storeVars, participantVars, readCursor, readLog, consoleVars>>

\* the result arrives: an empty one changes nothing, the messages of a
\* non-empty one are taken and its last id is the new cursor
ReaderReturn ==
    /\ readCall.phase = "answered"
    /\ readLog' = readLog \o readCall.messages
    /\ readCursor' = IF Len(readCall.messages) = 0 THEN readCursor
                     ELSE LastId(readCall.messages)
    /\ readCall' = ReaderIdle(readCall.request_id)
    /\ UNCHANGED <<storeVars, participantVars, consoleVars>>

\* the text a sender writes
TextOf(sender) ==
    IF sender = "user" THEN UserText(1)
    ELSE IF sender = "agent" THEN AgentText ELSE SessionClosedText

\* append_message served for one of its callers: the participant (user), the
\* teardown handler (system) or an operator (agent)
RelayAppend(rid, sender, actor) ==
    /\ rid \in 1..Len(requests)
    /\ Len(handoffMessages) < MaxStored
    /\ (sender = "agent") = (actor \in Operators)
    /\ LET res == AppendMessage(requests, handoffMessages, rid, sender,
                                TextOf(sender), actor)
       IN  /\ res.ok
           /\ requests' = res.requests
           /\ handoffMessages' = res.messages
    /\ UNCHANGED <<participantVars, readerVars, consoleVars>>

(***************************************************************************)
(* Operator console (AdminPanel).                                          *)
(***************************************************************************)
\* AdminPanel.jsx:415-419
UserType == IF username = "admin" THEN "admin" ELSE "operator"

\* an assignmentLocked that exempts no role
AssignmentLockedForAll ==
    /\ selectedId \in 1..Len(adminRequests)
    /\ adminRequests[selectedId].assigned_to # NULL
    /\ adminRequests[selectedId].assigned_to # username

AssignmentLocked ==
    /\ selectedId \in 1..Len(adminRequests)
    /\ adminRequests[selectedId].assigned_to # NULL
    /\ adminRequests[selectedId].assigned_to # username
    /\ UserType # "admin"

ClosedLocked ==
    /\ selectedId \in 1..Len(adminRequests)
    /\ adminRequests[selectedId].status = "closed"

\* one record shape for every request of the console; initial marks the fetch
\* of the selection effect
AdminRequest(kind, rid, after, to, initial) ==
    [kind |-> kind, request_id |-> rid, after_id |-> after, status |-> to,
     initial |-> initial]

\* before is the request as the relay found it
AdminResponse(q, ok, reqs, msgs, before) ==
    [kind |-> q.kind, request_id |-> q.request_id, status |-> q.status,
     initial |-> q.initial, ok |-> ok, requests |-> reqs, messages |-> msgs,
     before |-> before]

AdminInFlight(kind) ==
    {q \in adminOutbox : q.kind = kind} \cup {p \in adminInbox : p.kind = kind}

\* the console may send one more request
AdminMaySend == Cardinality(adminOutbox) + Cardinality(adminInbox) < MaxAdminCalls

\* the message pane may send one more call: nothing awaits the fetch of the
\* selection effect, so a new selection or a poll may overtake it
ThreadMaySend ==
    \/ AdminMaySend
    \/ /\ \A q \in adminOutbox : q.kind = "messages" /\ q.initial
       /\ \A p \in adminInbox : p.kind = "messages" /\ p.initial
       /\ Cardinality(AdminInFlight("messages")) < MaxThreadCalls

\* The message poll effect of AdminPanel (deps selectedId, lastMessageId,
\* token) after a render that shows sel, last and tok: once a dependency has
\* changed, the cleanup of the last run clears the interval that run has
\* created, and the body creates one if a request is selected and a token held.
AdminPollEffect(timers, sel, last, tok) ==
    IF <<sel, last, tok>> = <<selectedId, adminLastMessageId, token>> THEN timers
    ELSE clearInterval(timers, Interval(selectedId, adminLastMessageId))
             \cup (IF sel # NoRequest /\ tok THEN {Interval(sel, last)} ELSE {})

\* a JavaScript number: finite with its value, or NaN
Finite(n) == [finite |-> TRUE, num |-> n]
NaN == [finite |-> FALSE, num |-> 0]

DecimalDigits == <<"0", "1", "2", "3", "4", "5", "6", "7", "8", "9">>

IsDigit(c) == \E k \in 1..Len(DecimalDigits) : DecimalDigits[k] = c

DigitOf(c) == (CHOOSE k \in 1..Len(DecimalDigits) : DecimalDigits[k] = c) - 1

RECURSIVE Decimal(_)
Decimal(chars) ==
    IF chars = <<>> THEN 0
    ELSE Decimal(SubSeq(chars, 1, Len(chars) - 1)) * 10 + DigitOf(chars[Len(chars)])

\* Number(value): undefined is NaN, null and the empty string are 0, a string
\* of digits is its decimal value, any other string here is NaN
Number(value) ==
    CASE value.type = "undefined" -> NaN
      [] value.type = "null" -> Finite(0)
      [] value.type = "number" -> Finite(value.num)
      [] value.type = "string" ->
             IF \A i \in 1..Len(value.chars) : IsDigit(value.chars[i])
             THEN Finite(Decimal(value.chars))
             ELSE NaN

\* a normalizeRisk that forces no value for an emergency
normalizeRiskRaw(value, userStatus) ==
    IF userStatus = "safe" THEN 10
    ELSE IF ~Number(value).finite THEN 0
    ELSE Number(value).num

\* normalizeRisk(value, userStatus)
normalizeRisk(value, userStatus) ==
    LET num == Number(value)
    IN  IF userStatus = "emergency" /\ (~num.finite \/ num.num = 0) THEN 90
        ELSE IF userStatus = "safe" THEN 10
        ELSE IF ~num.finite THEN 0
        ELSE num.num

\* a riskLabel whose buckets start above 70 and above 40
riskLabelAbove(value, userStatus) ==
    IF userStatus = "safe" THEN "Low"
    ELSE IF value > 70 THEN "High"
    ELSE IF value > 40 THEN "Medium"
    ELSE "Low"

\* riskLabel(value, userStatus)
riskLabel(value, userStatus) ==
    IF userStatus = "safe" THEN "Low"
    ELSE IF value >= 70 THEN "High"
    ELSE IF value >= 40 THEN "Medium"
    ELSE "Low"

\* the indicator in the queue entry of a request: riskLevel, and riskValue
\* which riskText shows with it unless the participant is safe
RiskValue(request) == normalizeRisk(request.risk_score, request.user_status)

RiskLevel(request) == riskLabel(RiskValue(request), request.user_status)

\* cardTone of the queue entry, by the colour it names
CardTone(request) ==
    IF request.status = "closed" THEN "clay"
    ELSE IF request.user_status = "safe" THEN "moss"
    ELSE IF RiskValue(request) >= 70 THEN "rose"
    ELSE IF RiskValue(request) >= 40 THEN "orange"
    ELSE "white"

\* buildSummary: riskValue and riskLevel of the summary of the selected request
SummaryRisk(request) ==
    LET riskValue == normalizeRisk(request.risk_score, request.user_status)
    IN  [riskValue |-> riskValue,
         riskLevel |-> riskLabel(riskValue, request.user_status)]

\* load(), at mount and every 5 s: adminListHandoffRequests(token)
QueueTick ==
    /\ token
    /\ AdminMaySend
    /\ AdminInFlight("list") = {}
    /\ adminOutbox' = adminOutbox \cup {AdminRequest("list", NoRequest, 0, NULL, FALSE)}
    /\ UNCHANGED <<storeVars, participantVars, readerVars, username, token, adminTimers,
                   adminRequests, selectedId, adminMessages, adminLastMessageId, adminInbox>>

\* a queue entry is clicked: setSelectedId, then the selection effect empties
\* the message pane and fetches the messages from 0.  The entry of a closed
\* request is disabled for an operator who is no administrator.
SelectRequest(rid) ==
    /\ token
    /\ ThreadMaySend
    /\ rid \in 1..Len(adminRequests)
    /\ ~(adminRequests[rid].status = "closed" /\ UserType # "admin")
    /\ rid # selectedId
    /\ selectedId' = rid
    /\ adminMessages' = <<>>
    /\ adminLastMessageId' = 0
    /\ adminOutbox' = adminOutbox \cup {AdminRequest("messages", rid, 0, NULL, TRUE)}
    /\ adminTimers' = AdminPollEffect(adminTimers, rid, 0, token)
    /\ UNCHANGED <<storeVars, participantVars, readerVars, username, token, adminRequests,
                   adminInbox>>

\* the callback of the message poll's setInterval; one poll at a time
MessageTick ==
    /\ ThreadMaySend
    /\ \A q \in AdminInFlight("messages") : q.initial
    /\ \E interval \in adminTimers :
           adminOutbox' = adminOutbox \cup
               {AdminRequest("messages", interval.request_id, interval.after_id, NULL,
                             FALSE)}
    /\ UNCHANGED <<storeVars, participantVars, readerVars, username, token, adminTimers,
                   adminRequests, selectedId, adminMessages, adminLastMessageId, adminInbox>>

\* AdminPanel.handleSend, with a draft that is not empty
AdminHandleSend ==
    /\ token
    /\ AdminMaySend
    /\ selectedId # NoRequest
    /\ ~AssignmentLocked
    /\ ~ClosedLocked
    /\ AgentReplies < MaxAgentReplies
    /\ adminOutbox' = adminOutbox \cup {AdminRequest("send", selectedId, 0, NULL, FALSE)}
    /\ UNCHANGED <<storeVars, participantVars, readerVars, username, token, adminTimers,
                   adminRequests, selectedId, adminMessages, adminLastMessageId, adminInbox>>

\* AdminPanel.handleStatus(status), called by the Assign and the Close button
AdminHandleStatus(to) ==
    /\ token
    /\ AdminMaySend
    /\ selectedId # NoRequest
    /\ ~ClosedLocked
    /\ adminOutbox' = adminOutbox \cup {AdminRequest("status", selectedId, 0, to, FALSE)}
    /\ UNCHANGED <<storeVars, participantVars, readerVars, username, token, adminTimers,
                   adminRequests, selectedId, adminMessages, adminLastMessageId, adminInbox>>

\* the relay serves a request of the console, the operator logged in being
\* the actor
AdminServe(q) ==
    /\ q \in adminOutbox
    /\ adminOutbox' = adminOutbox \ {q}
    /\ LET before == IF q.request_id \in 1..Len(requests)
                     THEN requests[q.request_id] ELSE NewRequest(NULL)
       IN  CASE q.kind = "list" ->
                 /\ adminInbox' = adminInbox \cup
                        {AdminResponse(q, TRUE, requests, <<>>, before)}
                 /\ UNCHANGED storeVars
             [] q.kind = "messages" ->
                 /\ adminInbox' = adminInbox \cup
                        {AdminResponse(q, TRUE, <<>>,
                             ReadSince(handoffMessages, q.request_id, q.after_id), before)}
                 /\ UNCHANGED storeVars
             [] q.kind = "send" ->
                 LET res == AppendMessage(requests, handoffMessages, q.request_id,
                                          "agent", AgentText, username)
                 IN  /\ requests' = res.requests
                     /\ handoffMessages' = res.messages
                     /\ adminInbox' = adminInbox \cup
                            {AdminResponse(q, res.ok, <<>>, <<>>, before)}
             [] q.kind = "status" ->
                 LET res == Transition(requests, handoffMessages, q.request_id,
                                       q.status, username, FALSE)
                 IN  /\ requests' = res.requests
                     /\ handoffMessages' = res.messages
                     /\ adminInbox' = adminInbox \cup
                            {AdminResponse(q, res.ok, <<>>, <<>>, before)}
    /\ UNCHANGED <<participantVars, readerVars, username, token, adminTimers,
                   adminRequests, selectedId, adminMessages, adminLastMessageId>>

\* a message poll of the console does not come back: the network fails, or the
\* response is not OK and adminGetHandoffMessages throws
AdminFailPoll(q) ==
    /\ q \in adminOutbox /\ q.kind = "messages"
    /\ adminOutbox' = adminOutbox \ {q}
    /\ adminInbox' = adminInbox \cup
           {AdminResponse(q, FALSE, <<>>, <<>>, NewRequest(NULL))}
    /\ UNCHANGED <<storeVars, participantVars, readerVars, username, token, adminTimers,
                   adminRequests, selectedId, adminMessages, adminLastMessageId>>

\* the .then of handleStatus: the cached entry takes the new status
StatusApplied(reqs, rid, to) ==
    IF rid \in 1..Len(reqs)
    THEN [reqs EXCEPT ![rid].status = to,
                      ![rid].assigned_to = IF to = "assigned" THEN username
                                           ELSE IF to = "open" THEN NULL
                                           ELSE reqs[rid].assigned_to]
    ELSE reqs

\* what adminGetHandoffMessages returns, as the message pane keeps it
Incoming(msgs) ==
    [i \in 1..Len(msgs) |-> [id |-> msgs[i].id, sender |-> msgs[i].sender,
                             text |-> msgs[i].text]]

\* a response reaches its callback: .then on success, .catch(() => null) else
AdminReceive(p) ==
    /\ p \in adminInbox
    /\ adminInbox' = adminInbox \ {p}
    /\ adminRequests' =
           IF p.kind = "list" THEN (IF token THEN p.requests ELSE adminRequests)
           ELSE IF p.kind = "status" /\ p.ok
           THEN StatusApplied(adminRequests, p.request_id, p.status)
           ELSE adminRequests
    /\ adminMessages' =
           IF p.kind # "messages" \/ ~p.ok THEN adminMessages
           ELSE IF p.initial THEN Incoming(p.messages)
           ELSE adminMessages \o Incoming(p.messages)
    /\ adminLastMessageId' =
           IF p.kind = "messages" /\ p.ok /\ Len(p.messages) > 0 THEN LastId(p.messages)
           ELSE adminLastMessageId
    /\ failed' = IF p.kind = "messages" /\ ~p.ok
                 THEN [failed EXCEPT !.console =
                          [seen |-> TRUE, cursor |-> adminLastMessageId,
                           alone |-> AdminInFlight("messages") \ {p} = {}]]
                 ELSE failed
    /\ adminTimers' = AdminPollEffect(adminTimers, selectedId, adminLastMessageId', token)
    /\ UNCHANGED <<storeVars, netVars, chatVars, pageVars, quota, adminView, dialogueVars,
                   served, restoredLen, teardown, readerVars, username, token, selectedId,
                   adminOutbox>>

\* AdminPanel.handleLogout: the token and the selection are dropped, the
\* message pane is emptied; the cursor keeps its value.  The requests on their
\* way still carry the token of the operator.
HandleLogout ==
    /\ token
    /\ token' = FALSE
    /\ selectedId' = NoRequest
    /\ adminMessages' = <<>>
    /\ adminTimers' = AdminPollEffect(adminTimers, NoRequest, adminLastMessageId, FALSE)
    /\ UNCHANGED <<storeVars, participantVars, readerVars, username, adminRequests,
                   adminLastMessageId, adminOutbox, adminInbox>>

(***************************************************************************)
(* The participant and the relay.                                          *)
(***************************************************************************)
InitParticipant ==
    /\ outbox = {}
    /\ inbox = {}
    /\ sessionId = "web_1"
    /\ messages = <<>>
    /\ handoffActive = FALSE
    /\ handoffRequestId = NoRequest
    /\ handoffLastMessageId = 0
    /\ ignoreHandoffIds = {}
    /\ closingRef = FALSE
    /\ reopenFlag = FALSE
    /\ storedRequestId = NoRequest
    /\ location = NULL
    /\ gpsPending = {}
    /\ persisted = Snapshot("web_1", <<>>, FALSE, NoRequest, 0, NULL)
    /\ page = 0
    /\ localIds = 0
    /\ mounted = TRUE
    /\ pollTimers = {}
    /\ quota = FALSE
    /\ adminView = FALSE
    /\ failed = [participant |-> NoFailure, console |-> NoFailure]
    /\ status = "idle"
    /\ error = NULL
    /\ dialogue = <<>>
    /\ dialoguePending = 0
    /\ served = <<>>
    /\ restoredLen = 0
    /\ teardown = <<>>

\* the console after the login of operator opB, nothing listed yet
InitConsole ==
    /\ username = "opB"
    /\ token = TRUE
    /\ adminTimers = {}
    /\ adminRequests = <<>>
    /\ selectedId = NoRequest
    /\ adminMessages = <<>>
    /\ adminLastMessageId = 0
    /\ adminOutbox = {}
    /\ adminInbox = {}

InitReader(rid) ==
    /\ readCursor = 0
    /\ readLog = <<>>
    /\ readCall = ReaderIdle(rid)

Init ==
    /\ requests = <<>>
    /\ handoffMessages = <<>>
    /\ InitParticipant
    /\ InitConsole
    /\ InitReader(1)

Next ==
    \/ HandleSend
    \/ \E reply \in {"ok", EscalationText} : SendMessageFulfilled(reply)
    \/ \E p \in inbox : ReceiveActiveRequest(p)
    \/ \E p \in inbox : ReceiveDelivered(p)
    \/ \E p \in inbox : ReceivePoll(p)
    \/ PollTick
    \/ HandleLocationSave
    \/ HandleGps
    \/ \E g \in gpsPending, label \in {GpsLabel, ""} : GpsResolved(g, label)
    \/ \E g \in gpsPending : GpsDenied(g)
    \/ HandleQuickAction
    \/ SendMessageRejected
    \/ CloseHandoff
    \/ LoadPage
    \/ \E q \in outbox : RelayServe(q)
    \/ \E op \in Operators, rid \in 1..MaxRequests, to \in {"assigned", "closed"} :
           OperatorStatus(op, rid, to)
    \/ \E op \in Operators, rid \in 1..MaxRequests : OperatorReply(op, rid)
    \/ QueueTick
    \/ \E rid \in 1..MaxRequests : SelectRequest(rid)
    \/ MessageTick
    \/ AdminHandleSend
    \/ \E to \in {"assigned", "closed"} : AdminHandleStatus(to)
    \/ \E q \in adminOutbox : AdminServe(q)
    \/ \E p \in adminInbox : AdminReceive(p)
    \/ ReaderCall
    \/ ReaderServe
    \/ ReaderReturn

Spec == Init /\ [][Next]_vars

(***************************************************************************)
(* read_since under a client that calls it one call after the other, while *)
(* messages are appended to two requests and operators assign and close    *)
(* them.  The client keeps calling and the relay keeps answering.          *)
(***************************************************************************)
InitRead ==
    /\ requests = <<NewRequest("web_1"), NewRequest("web_2")>>
    /\ handoffMessages = <<>>
    /\ InitParticipant
    /\ InitConsole
    /\ \E rid \in {1, 2} : InitReader(rid)

NextRead ==
    \/ ReaderCall
    \/ ReaderServe
    \/ ReaderReturn
    \/ \E rid \in 1..MaxRequests, sender \in {"user", "agent", "system"},
          actor \in {NULL, "opA"} : RelayAppend(rid, sender, actor)
    \/ \E op \in {"opA"}, rid \in 1..MaxRequests, to \in {"assigned", "closed"} :
           OperatorStatus(op, rid, to)

SpecRead ==
    /\ InitRead
    /\ [][NextRead]_vars
    /\ WF_vars(ReaderCall)
    /\ WF_vars(ReaderServe)
    /\ WF_vars(ReaderReturn)

(***************************************************************************)
(* The console of operator opB beside another operator and an              *)
(* administrator, on the request of an escalated participant.              *)
(***************************************************************************)
NextConsole ==
    \/ HandleSend
    \/ \E reply \in {EscalationText} : SendMessageFulfilled(reply)
    \/ \E p \in inbox : ReceiveActiveRequest(p)
    \/ \E q \in outbox : ServeActive(q)
    \/ QueueTick
    \/ \E rid \in 1..MaxRequests : SelectRequest(rid)
    \/ MessageTick
    \/ AdminHandleSend
    \/ \E to \in {"assigned", "closed"} : AdminHandleStatus(to)
    \/ \E q \in adminOutbox : AdminServe(q)
    \/ \E p \in adminInbox : AdminReceive(p)
    \/ \E op \in {"opA", "admin"}, rid \in 1..MaxRequests, to \in {"assigned", "closed"} :
           OperatorStatus(op, rid, to)
    \/ \E op \in {"opA"}, rid \in 1..MaxRequests : OperatorReply(op, rid)

SpecConsole == Init /\ [][NextConsole]_vars

(***************************************************************************)
(* The two channels of the participant: the composer, the location panel   *)
(* and the quick actions, before and after the escalation, while the relay *)
(* has not answered yet.                                                   *)
(***************************************************************************)
NextDialogue ==
    \/ HandleSend
    \/ \E reply \in {"ok", EscalationText} : SendMessageFulfilled(reply)
    \/ SendMessageRejected
    \/ HandleLocationSave
    \/ HandleGps
    \/ \E g \in gpsPending, label \in {GpsLabel, ""} : GpsResolved(g, label)
    \/ \E g \in gpsPending : GpsDenied(g)
    \/ HandleQuickAction

SpecDialogue == Init /\ [][NextDialogue]_vars


(***************************************************************************)
(* Message polling of the participant: sends, polls and operator replies   *)
(* on one page.                                                            *)
(***************************************************************************)
NextPoll ==
    \/ HandleSend
    \/ \E reply \in {"ok", EscalationText} : SendMessageFulfilled(reply)
    \/ \E p \in inbox : ReceiveActiveRequest(p)
    \/ \E p \in inbox : ReceiveDelivered(p)
    \/ \E p \in inbox : ReceivePoll(p)
    \/ PollTick
    \/ \E q \in outbox : ServeActive(q)
    \/ \E q \in outbox : ServeMessage(q)
    \/ \E q \in outbox : ServePoll(q)
    \/ \E op \in Operators, rid \in 1..MaxRequests : OperatorReply(op, rid)

SpecPoll == Init /\ [][NextPoll]_vars

(***************************************************************************)
(* Message polling across a reload of the tab.                             *)
(***************************************************************************)
NextReload ==
    \/ HandleSend
    \/ \E reply \in {"ok", EscalationText} : SendMessageFulfilled(reply)
    \/ \E p \in inbox : ReceiveActiveRequest(p)
    \/ \E p \in inbox : ReceiveDelivered(p)
    \/ \E p \in inbox : ReceivePoll(p)
    \/ PollTick
    \/ CloseHandoff
    \/ LoadPage
    \/ \E q \in outbox : ServeActive(q)
    \/ \E q \in outbox : ServeMessage(q)
    \/ \E q \in outbox : ServePoll(q)
    \/ \E q \in outbox : ServeStatus(q)

SpecReload == Init /\ [][NextReload]_vars

(***************************************************************************)
(* The session-continuity guard and the request lifecycle: teardown,       *)
(* reload and reopen against the relay, with an operator at work.          *)
(***************************************************************************)
NextGuard ==
    \/ HandleSend
    \/ \E reply \in {"ok", EscalationText} : SendMessageFulfilled(reply)
    \/ \E p \in inbox : ReceiveActiveRequest(p)
    \/ \E p \in inbox : ReceiveDelivered(p)
    \/ CloseHandoff
    \/ LoadPage
    \/ \E q \in outbox : ServeActive(q)
    \/ \E q \in outbox : ServeMessage(q)
    \/ \E q \in outbox : ServeStatus(q)
    \/ \E op \in {"opA"}, rid \in 1..MaxRequests, to \in {"assigned", "closed"} :
           OperatorStatus(op, rid, to)

SpecGuard == Init /\ [][NextGuard]_vars

(***************************************************************************)
(* Properties of the rendered list.                                        *)
(***************************************************************************)
\* positions of the rendered list that show the user's text t
Instances(t) ==
    {i \in 1..Len(messages) : messages[i].sender = "user" /\ messages[i].text = t}

\* the text t has reached the relay through sendHandoffMessage
Relayed(t) ==
    \E i \in 1..Len(handoffMessages) :
        handoffMessages[i].sender = "user" /\ handoffMessages[i].text = t

\* positions of the rendered list that show the relay message with this id
Renderings(id) == {i \in 1..Len(messages) : messages[i].id = id}

\* C1 (echo suppression): every user message sent through the relay while the
\* handoff is active is shown exactly once in the rendered list, whatever the
\* order in which the response of the send and the responses of the polls
\* arrive.
EchoSuppression ==
    \A n \in 1..MaxUserTexts :
        Relayed(UserText(n)) => Cardinality(Instances(UserText(n))) = 1

\* C2 (at-most-once visible delivery): within one page lifetime no relay
\* message is appended to the rendered list more than once, also when polls
\* overlap or their responses arrive out of order.
AtMostOnceDelivery ==
    \A id \in 1..Len(handoffMessages) : Cardinality(Renderings(id)) <= 1

\* the entry at position j of the rendered list shows again what the entry at
\* position i shows: the same relay message, or the relay's copy of a text
\* the list shows as the user's own
SameMessage(i, j) ==
    /\ messages[j].id > 0
    /\ \/ messages[i].id = messages[j].id
       \/ /\ messages[i].id < 0
          /\ messages[i].sender = "user"
          /\ messages[j].sender = "user"
          /\ messages[i].text = messages[j].text

\* C3 (at-most-once across reload): after a reload with a persisted cursor, no
\* message that was in the rendered list before the reload is rendered a
\* second time by the polls of the new page.
AtMostOnceAcrossReload ==
    page > 0 =>
        \A i \in 1..restoredLen, j \in (restoredLen + 1)..Len(messages) :
            ~SameMessage(i, j)

(***************************************************************************)
(* Properties of the request lifecycle.                                    *)
(***************************************************************************)
\* the system messages in the log of request rid that note a closed session
ClosureNotes(rid) ==
    {i \in 1..Len(handoffMessages) :
        handoffMessages[i].request_id = rid /\ IsClosureNote(handoffMessages[i])}

\* the relay has served the closure note, the close and the reopen of the
\* last teardown
ServedOps == {served[i].op : i \in 1..Len(served)}

AllProcessed == {"note", "close", "reopen"} \subseteq ServedOps

\* C6 (reopen suppresses the duplicate notice): the request is assigned, the
\* teardown handler records its closure note and closes the request, the next
\* load reopens it with suppress_close_message; then the log of the request
\* holds exactly one session-closed system message and the request is open.
ReopenSuppressesDuplicateNotice ==
    ( /\ Len(served) = 3
      /\ served[1].op = "note" /\ served[1].from = "assigned"
      /\ served[2].op = "close"
      /\ served[3].op = "reopen" )
    => /\ Cardinality(ClosureNotes(served[3].request_id)) = 1
       /\ requests[served[3].request_id].status = "open"

\* C7 (no false closure on refresh): the participant reloads the tab while
\* the handoff is active; once the relay has processed the two teardown
\* requests and the reopen, in whatever order they were delivered, the request
\* is not closed, unless an operator has closed it.
NoFalseClosureOnRefresh ==
    ( /\ AllProcessed
      /\ \A i \in 1..Len(served) : served[i].op # "closed" )
    => \A i \in 1..Len(served) : requests[served[i].request_id].status # "closed"

\* C8 (idempotent activation): concurrent create_or_get_active calls for one
\* conversation create one request, and at every time a conversation has at
\* most one request that is not closed.
IdempotentActivation ==
    \A i, j \in 1..Len(requests) :
        ( /\ requests[i].conversation_id = requests[j].conversation_id
          /\ requests[i].status # "closed"
          /\ requests[j].status # "closed" ) => i = j

(***************************************************************************)
(* Properties of the two channels.                                         *)
(***************************************************************************)
\* C5 (channel switch): while handoffActive is true no text entered by the
\* user is sent to the dialogue channel, whichever action of the user
\* interface the text comes from.
ChannelSwitch == [][handoffActive => dialogue' = dialogue]_vars

(***************************************************************************)
(* Properties of the Relay Service.                                        *)
(***************************************************************************)
\* the messages of request rid with an id up to upto, in ascending id order
StoredUpTo(rid, upto) ==
    SelectSeq(handoffMessages, LAMBDA m : m.request_id = rid /\ m.id <= upto)

\* message i is in the log of the request the client reads
Stored(i) ==
    /\ i <= Len(handoffMessages)
    /\ handoffMessages[i].request_id = readCall.request_id

Received(i) == \E j \in 1..Len(readLog) : readLog[j].id = i

Exclusive(r, B) ==
    ( /\ r.status = "assigned"
      /\ r.assigned_to \in Operators \ {B}
      /\ B # "admin" )

Conversation(msgs, rid) ==
    SelectSeq(msgs, LAMBDA m : m.request_id = rid /\ ~IsClosureNote(m))

\* on a closed request append_message(r, user, "x") fails and
\* transition(r, closed) succeeds, both without a change of the Store
Immutable(rid) ==
    /\ LET a == AppendMessage(requests, handoffMessages, rid, "user", UserText(1), NULL)
       IN  ~a.ok /\ a.requests = requests /\ a.messages = handoffMessages
    /\ \A actor \in Operators \cup {NULL}, suppress \in BOOLEAN :
           LET t == Transition(requests, handoffMessages, rid, "closed", actor, suppress)
           IN  t.ok /\ t.requests = requests /\ t.messages = handoffMessages

\* C10 (closed immutability): after transition(r, closed) an append of a user
\* message to r fails, and transition(r, closed) called again is a no-op that
\* returns the same state and is no error; no step adds a message of the
\* conversation to the log of a request that is closed.
ClosedImmutability ==
    /\ [](\A rid \in 1..Len(requests) : requests[rid].status = "closed" => Immutable(rid))
    /\ [][\A rid \in 1..Len(requests) :
              requests[rid].status = "closed" =>
                  Conversation(handoffMessages', rid) = Conversation(handoffMessages, rid)]_vars

\* the text t was sent to the relay by handleSend and the relay has refused it
Refused(t) ==
    /\ Instances(t) # {}
    /\ ~Relayed(t)
    /\ \A k \in 1..Len(dialogue) : dialogue[k] # t
    /\ \A q \in outbox : q.text # t
    /\ \A p \in inbox : p.text # t

\* an operator has closed the request; the relay has then refused a text of
\* the participant and has served the close of the teardown handler
ClosedTwiceAndRefused ==
    /\ page = 0
    /\ \E n \in 1..MaxUserTexts : Refused(UserText(n))
    /\ \E i \in 1..Len(served) :
           /\ served[i].op = "close"
           /\ served[i].from = "closed"
           /\ requests[served[i].request_id].status = "closed"

\* the console has just issued an append_message or a transition request
ActionIssued ==
    \E q \in adminOutbox' \ adminOutbox : q.kind \in {"send", "status"}

\* C11 (client-side rejection): while the cached copy of the selected request
\* shows it assigned to another operator, or closed, the console of a
\* non-administrator issues no append_message and no transition request for
\* it: neither the reply nor one of the two status buttons.
ClientSideRejection ==
    [][(UserType # "admin" /\ (AssignmentLocked \/ ClosedLocked)) => ~ActionIssued]_vars

(***************************************************************************)
(* The continuity guard across one reload of the tab, the dashboard within *)
(* reach and the storage quota at its limit.                               *)
(***************************************************************************)
NextRecover ==
    \/ HandleSend
    \/ \E reply \in {"ok", EscalationText} : SendMessageFulfilled(reply)
    \/ \E p \in inbox : ReceiveActiveRequest(p)
    \/ \E p \in inbox : ReceiveDelivered(p)
    \/ QuotaExceeded
    \/ OpenDashboard
    \/ CloseHandoff
    \/ \E view \in BOOLEAN : LoadAt(view)
    \/ \E q \in outbox : ServeActive(q)
    \/ \E q \in outbox : ServeMessage(q)
    \/ \E q \in outbox : ServeStatus(q)

SpecRecover == Init /\ [][NextRecover]_vars

\* the step is a load of the page that shows ChatPanel
Loads == page' = page + 1 /\ ~adminView'

\* the reopen fetch of the page that has just loaded is on its way
ReopenIssued(rid) ==
    \E q \in outbox' : q = [ReopenStatus(rid) EXCEPT !.page = page']

\* C12 (recovery when not already active): a load that finds the transient
\* flag and a stored request id, the client not marked handoffActive, ends with
\* handoffActive true, handoffRequestId the stored id, the polling cursor 0 and
\* the transition to open with suppress_close_message issued.
RecoveryWhenInactive ==
    [][(Loads /\ reopenFlag /\ storedRequestId # NoRequest /\ ~persisted.handoffActive)
          => /\ handoffActive'
             /\ handoffRequestId' = storedRequestId
             /\ handoffLastMessageId' = 0
             /\ ReopenIssued(storedRequestId)]_vars

\* the step consumes the transient flag: the recovery has run
Recovers == reopenFlag /\ ~reopenFlag'

\* the reopen transitions the step has issued
NewReopens ==
    {q \in outbox' \ outbox : q.kind = "status" /\ q.status = "open" /\ q.suppress}

\* C13 (recovery is idempotent): a load that finds the flag and a stored
\* request id runs the recovery; the recovery clears the flag and the stored
\* id and issues the reopen transition exactly once; every other run of the
\* effect (it re-fires when handoffActive or handoffRequestId changes) issues
\* no reopen and leaves the two storage entries as they are.
RecoveryIdempotent ==
    [][/\ (Loads /\ reopenFlag /\ storedRequestId # NoRequest) => Recovers
       /\ Recovers => storedRequestId' = NoRequest /\ Cardinality(NewReopens) = 1
       /\ (~Recovers /\ closingRef' = closingRef) =>
              /\ NewReopens = {}
              /\ reopenFlag' = reopenFlag /\ storedRequestId' = storedRequestId]_vars

\* C14 (normal startup): a load that finds no transient flag issues no
\* transition request, removes no message and starts with handoffActive,
\* handoffRequestId and the polling cursor as the stored chat state has them.
NormalStartup ==
    [][(page' = page + 1 /\ ~reopenFlag) =>
          /\ \A q \in outbox' \ outbox : q.kind # "status"
          /\ messages' = persisted.messages
          /\ handoffActive' = persisted.handoffActive
          /\ handoffRequestId' = persisted.handoffRequestId
          /\ handoffLastMessageId' = persisted.handoffLastMessageId
          /\ ~reopenFlag' /\ storedRequestId' = storedRequestId]_vars

\* the chat has loaded into an escalated conversation with a known request
\* and no teardown has ever written the flag: nothing was closed or reopened
StartedWithoutFlag ==
    /\ page = 1 /\ ~adminView /\ mounted
    /\ handoffActive /\ handoffRequestId # NoRequest
    /\ ~reopenFlag /\ served = <<>>
    /\ \A q \in outbox : q.kind # "status"
    /\ requests[handoffRequestId].status = "open"

\* C15 (teardown writes the flag): whenever the page is torn down while
\* handoffActive is true, the transient flag and the current request id are in
\* the tab's storage, where the next load finds them.  Stated for the
\* teardowns at which the client knows the request id.
TeardownWritesFlag ==
    [][(page' = page + 1 /\ handoffActive /\ handoffRequestId # NoRequest) =>
          /\ reopenFlag
          /\ storedRequestId = handoffRequestId]_vars

(***************************************************************************)
(* A second interruption of the same handoff.  The tab starts where one    *)
(* teardown, reload and reopen have left it: request 1 was closed and      *)
(* reopened once and holds the two closure notes, the participant is back  *)
(* in the handoff with nothing on its way.  page counts the loads from     *)
(* here on.                                                                *)
(***************************************************************************)
InitReconnect ==
    /\ requests = <<[NewRequest("web_1") EXCEPT !.reopened = TRUE,
                                                !.last_message_sender = "system"]>>
    /\ handoffMessages =
           StoreMessage(StoreMessage(<<>>, 1, "system", SessionClosedText),
                        1, "system", RelayClosedText)
    /\ outbox = {}
    /\ inbox = {}
    /\ sessionId = "web_1"
    /\ messages = <<[id |-> -1, sender |-> "user", text |-> UserText(1)],
                    [id |-> -2, sender |-> "bot", text |-> EscalationText]>>
    /\ handoffActive = TRUE
    /\ handoffRequestId = 1
    /\ handoffLastMessageId = 0
    /\ location = NULL
    /\ ignoreHandoffIds = {}
    /\ closingRef = FALSE
    /\ reopenFlag = FALSE
    /\ storedRequestId = NoRequest
    /\ persisted = Snapshot("web_1", messages, TRUE, 1, 0, NULL)
    /\ page = 0
    /\ localIds = 2
    /\ mounted = TRUE
    /\ gpsPending = {}
    /\ pollTimers = {Interval(1, 0)}
    /\ quota = FALSE
    /\ adminView = FALSE
    /\ failed = [participant |-> NoFailure, console |-> NoFailure]
    /\ status = "idle"
    /\ error = NULL
    /\ dialogue = <<UserText(1)>>
    /\ dialoguePending = 0
    /\ served = <<>>
    /\ restoredLen = 0
    /\ teardown = <<>>
    /\ InitConsole
    /\ InitReader(1)

NextReconnect ==
    \/ HandleSend
    \/ \E p \in inbox : ReceiveDelivered(p)
    \/ CloseHandoff
    \/ LoadPage
    \/ \E q \in outbox : ServeMessage(q)
    \/ \E q \in outbox : ServeStatus(q)
    \/ \E op \in {"opA"}, to \in {"assigned", "closed"} : OperatorStatus(op, 1, to)

SpecReconnect == InitReconnect /\ [][NextReconnect]_vars

\* the last step on the request was the reopen of the continuity guard, sent
\* for a closed request, and the request is still closed: the relay has
\* refused the reopen
ReopenRejected ==
    /\ served # <<>>
    /\ served[Len(served)].op = "reopen"
    /\ served[Len(served)].from = "closed"
    /\ requests[served[Len(served)].request_id].status = "closed"

\* C16 (inconsistency on reconnect): when the load has found the flag and the
\* relay has refused the reopen, the participant client is in normal
\* non-handoff startup once nothing is on its way any more: handoffActive is
\* false, so that later user text goes to the dialogue channel.
FallbackOnRejectedReopen ==
    (page > 0 /\ mounted /\ ReopenRejected /\ outbox = {} /\ inbox = {}) => ~handoffActive

(***************************************************************************)
(* Message polling of both clients over a network that may fail a poll.    *)
(***************************************************************************)
NextFailSoft ==
    \/ HandleSend
    \/ \E reply \in {EscalationText} : SendMessageFulfilled(reply)
    \/ \E p \in inbox : ReceiveActiveRequest(p)
    \/ \E p \in inbox : ReceiveDelivered(p)
    \/ \E p \in inbox : ReceivePoll(p)
    \/ \E p \in inbox : PollRejected(p)
    \/ PollTick
    \/ \E q \in outbox : ServeActive(q)
    \/ \E q \in outbox : ServeMessage(q)
    \/ \E q \in outbox : ServePoll(q)
    \/ \E q \in outbox : FailPoll(q)
    \/ \E rid \in 1..MaxRequests : SelectRequest(rid)
    \/ QueueTick
    \/ MessageTick
    \/ \E q \in adminOutbox : AdminServe(q)
    \/ \E q \in adminOutbox : AdminFailPoll(q)
    \/ \E p \in adminInbox : AdminReceive(p)

SpecFailSoft == Init /\ [][NextFailSoft]_vars

\* the step is the failure callback of a message poll
ParticipantPollFails ==
    page' = page /\ \E p \in inbox \ inbox' : p.then = "poll" /\ ~p.ok

ConsolePollFails ==
    \E p \in adminInbox \ adminInbox' : p.kind = "messages" /\ ~p.ok

\* the poll the next tick of the participant's interval sends
NextPollOf(rid, cursor) == [request_id |-> rid, after_id |-> cursor]

\* C17 (fail-soft polling): the failure of a message poll, of the participant
\* or of the operator console, leaves the cursor, the rendered messages and the
\* error state of the client as they are, surfaces nothing, keeps the polling
\* timer running, and the next tick polls with the same cursor.
FailSoftPolling ==
    [][/\ ParticipantPollFails =>
              /\ messages' = messages
              /\ handoffLastMessageId' = handoffLastMessageId
              /\ error' = error /\ status' = status
              /\ handoffActive' = handoffActive /\ mounted' = mounted
              /\ PollTimerLive' = PollTimerLive
              /\ NextPollOf(handoffRequestId', handoffLastMessageId')
                     = NextPollOf(handoffRequestId, handoffLastMessageId)
       /\ ConsolePollFails =>
              /\ adminMessages' = adminMessages
              /\ adminLastMessageId' = adminLastMessageId
              /\ adminRequests' = adminRequests
              /\ NextPollOf(selectedId', adminLastMessageId')
                     = NextPollOf(selectedId, adminLastMessageId)]_vars

\* each client has handled the failure of a poll sent with a cursor past the
\* first message, no other poll on its way, and its timer has since sent a
\* poll with that cursor
PolledAgainAfterFailure ==
    /\ failed.participant.seen /\ failed.console.seen
    /\ failed.participant.alone /\ failed.console.alone
    /\ failed.participant.cursor > 0
    /\ failed.console.cursor > 0
    /\ PollTimerLive
    /\ \E q \in outbox :
           /\ q.kind = "poll" /\ q.request_id = handoffRequestId
           /\ q.after_id = failed.participant.cursor
           /\ q.after_id = handoffLastMessageId
    /\ \E q \in adminOutbox :
           /\ q.kind = "messages" /\ ~q.initial /\ q.request_id = selectedId
           /\ q.after_id = failed.console.cursor
           /\ q.after_id = adminLastMessageId

(***************************************************************************)
(* Both clients with everything that creates or ends a poll interval: the  *)
(* handoff starts, cursors move with the messages of the other side, the   *)
(* participant opens the dashboard, the operator selects a request and     *)
(* logs out.                                                               *)
(***************************************************************************)
NextTimers ==
    \/ HandleSend
    \/ \E reply \in {EscalationText} : SendMessageFulfilled(reply)
    \/ \E p \in inbox : ReceiveActiveRequest(p)
    \/ \E p \in inbox : ReceiveDelivered(p)
    \/ \E p \in inbox : ReceivePoll(p)
    \/ PollTick
    \/ OpenDashboard
    \/ \E q \in outbox : ServeActive(q)
    \/ \E q \in outbox : ServeMessage(q)
    \/ \E q \in outbox : ServePoll(q)
    \/ QueueTick
    \/ \E rid \in 1..MaxRequests : SelectRequest(rid)
    \/ MessageTick
    \/ AdminHandleSend
    \/ HandleLogout
    \/ \E q \in adminOutbox : AdminServe(q)
    \/ \E p \in adminInbox : AdminReceive(p)

SpecTimers == Init /\ [][NextTimers]_vars

\* C18: each client has at most one live message-poll interval; the
\* participant has none while the handoff is not active or no request id is
\* known, the console none while no request is selected or no token is held;
\* a live interval is the one created for the present request and cursor, the
\* one of an earlier cursor, request or activation having been cleared.
NoLeakedTimers ==
    /\ Cardinality(pollTimers) <= 1
    /\ Cardinality(adminTimers) <= 1
    /\ (~handoffActive \/ handoffRequestId = NoRequest) => pollTimers = {}
    /\ (selectedId = NoRequest \/ ~token) => adminTimers = {}
    /\ pollTimers \subseteq {Interval(handoffRequestId, handoffLastMessageId)}
    /\ adminTimers \subseteq {Interval(selectedId, adminLastMessageId)}

\* both clients poll with an interval created after their cursor had moved
TimersReplaced ==
    /\ pollTimers = {Interval(handoffRequestId, handoffLastMessageId)}
    /\ handoffLastMessageId > 0
    /\ adminTimers = {Interval(selectedId, adminLastMessageId)}
    /\ adminLastMessageId > 0

(***************************************************************************)
(* The dialogue channel with every payload the engine may return: up to    *)
(* MaxReplies entries, each one of ReplyTexts without buttons, or buttons   *)
(* without a text.  A quick action posts while a reply is awaited, so a    *)
(* response may be processed when the handoff is active already.           *)
(***************************************************************************)
Entries ==
    [text : ReplyTexts, buttons : {FALSE}] \cup {[text |-> "", buttons |-> TRUE]}

Payloads == UNION {[1..n -> Entries] : n \in 0..MaxReplies}

NextDetect ==
    \/ HandleQuickAction
    \/ \E payload \in Payloads : SendMessageFulfilledWith(payload)

SpecDetect == Init /\ [][NextDetect]_vars

\* the replies of ReplyTexts that contain a trigger phrase, whatever their case
Triggering ==
    {EscalationText, "High Risk Detected.", "WAITING FOR OPERATOR", "Inhuman operators"}

\* the reply texts a step has appended to the rendered list
NewReplies == {messages'[i].text : i \in (Len(messages) + 1)..Len(messages')}

\* C19: after a response of the dialogue channel is processed, handoffActive
\* is true if and only if it was true before or a reply text of the response
\* contains, case-insensitively, a trigger phrase as a substring; a response
\* without such a reply leaves handoffActive as it was.
TriggerDetection ==
    [][dialoguePending' = dialoguePending - 1
           => handoffActive' = (handoffActive \/ NewReplies \cap Triggering # {})]_vars

\* the handoff was switched on by a phrase in upper case, in a response that
\* ends with a reply without a phrase
DetectedInUpperCase ==
    /\ handoffActive
    /\ Len(messages) >= 2
    /\ messages[Len(messages)].text = "ok"
    /\ \E i \in 1..Len(messages) : messages[i].text = "WAITING FOR OPERATOR"
    /\ \A i \in 1..Len(messages) :
           messages[i].text \notin Triggering \ {"WAITING FOR OPERATOR"}

(***************************************************************************)
(* The queue of the console with a request that carries the tags of its    *)
(* triggering context: a user_status, and a raw risk_score that is         *)
(* missing, null, a number, or a string.                                   *)
(***************************************************************************)
UserStatuses == {"emergency", "trapped", "safe", NULL}

RawScores ==
    {Undefined, Null, Num(0), Num(39), Num(40), Num(69), Num(70), Num(95),
     Str(<<>>), Str(<<"0">>), Str(<<"9", "5">>), Str(<<"h", "i", "g", "h">>)}

InitRisk ==
    /\ \E tag \in UserStatuses, score \in RawScores :
           requests = <<[NewRequest("web_1") EXCEPT !.user_status = tag,
                                                    !.risk_score = score]>>
    /\ handoffMessages = <<>>
    /\ InitParticipant
    /\ InitConsole
    /\ InitReader(1)

NextRisk ==
    \/ QueueTick
    \/ \E rid \in 1..MaxRequests : SelectRequest(rid)
    \/ \E to \in {"assigned", "closed"} : AdminHandleStatus(to)
    \/ \E q \in adminOutbox : AdminServe(q)
    \/ \E p \in adminInbox : AdminReceive(p)

SpecRisk == InitRisk /\ [][NextRisk]_vars

\* C20: whatever the raw score, the queue shows Low for a request whose
\* user_status is safe, and High for a request whose user_status is emergency
\* and whose raw score is missing, not numeric or zero.
RiskForcedValues ==
    \A rid \in 1..Len(adminRequests) :
        LET request == adminRequests[rid]
        IN  /\ request.user_status = "safe" => RiskLevel(request) = "Low"
            /\ (request.user_status = "emergency" /\ request.risk_score \in
                    {Undefined, Null, Num(0), Str(<<>>), Str(<<"0">>),
                     Str(<<"h", "i", "g", "h">>)})
                   => RiskLevel(request) = "High"

\* the queue lists an emergency with score 0
EmergencyWithZeroListed ==
    \E rid \in 1..Len(adminRequests) :
        /\ adminRequests[rid].user_status = "emergency"
        /\ adminRequests[rid].risk_score = Num(0)
        /\ RiskLevel(adminRequests[rid]) = "High"

\* the bucket of a score: low below 40, medium from 40 to 69, high from 70
Bucket(n) == IF n < 40 THEN "Low" ELSE IF n <= 69 THEN "Medium" ELSE "High"

\* the tone of the queue entry that goes with a bucket
ToneOf(level) ==
    IF level = "High" THEN "rose" ELSE IF level = "Medium" THEN "orange" ELSE "white"

\* the request has a numeric score that no rule replaces
ScoreUsed(request) ==
    /\ request.user_status # "safe"
    /\ request.risk_score.type = "number"
    /\ ~(request.user_status = "emergency" /\ request.risk_score.num = 0)

\* C21: for a request that is neither safe nor an emergency with a missing or
\* zero score, the queue entry shows the raw numeric score unchanged, as Low
\* below 40, Medium from 40 to 69 and High from 70; the summary of the
\* selected request shows the same value and the same bucket.
RiskBucketing ==
    \A rid \in 1..Len(adminRequests) :
        LET request == adminRequests[rid]
            score == request.risk_score.num
        IN  ScoreUsed(request) =>
                /\ RiskValue(request) = score
                /\ RiskLevel(request) = Bucket(score)
                /\ request.status # "closed" => CardTone(request) = ToneOf(Bucket(score))
                /\ rid = selectedId =>
                       SummaryRisk(request) =
                           [riskValue |-> score, riskLevel |-> Bucket(score)]

\* a request on a bucket boundary is selected and shown
BoundaryScoreSelected ==
    /\ selectedId \in 1..Len(adminRequests)
    /\ ScoreUsed(adminRequests[selectedId])
    /\ adminRequests[selectedId].risk_score.num = 70
    /\ SummaryRisk(adminRequests[selectedId]).riskLevel = "High"

(***************************************************************************)
(* The status changes the two clients ask for: Assign and Close of the     *)
(* console, the close of the teardown handler and the reopen of the next   *)
(* page.                                                                   *)
(***************************************************************************)
NextMachine ==
    \/ HandleSend
    \/ \E reply \in {EscalationText} : SendMessageFulfilled(reply)
    \/ \E p \in inbox : ReceiveActiveRequest(p)
    \/ CloseHandoff
    \/ LoadPage
    \/ \E q \in outbox : ServeActive(q)
    \/ \E q \in outbox : ServeMessage(q)
    \/ \E q \in outbox : ServeStatus(q)
    \/ QueueTick
    \/ \E rid \in 1..MaxRequests : SelectRequest(rid)
    \/ \E to \in {"assigned", "closed"} : AdminHandleStatus(to)
    \/ \E q \in adminOutbox : AdminServe(q)
    \/ \E p \in adminInbox : AdminReceive(p)

SpecMachine == Init /\ [][NextMachine]_vars

\* the edges of the state machine, closed -> open being the reopen
Edges ==
    {<<"open", "assigned">>, <<"assigned", "closed">>, <<"assigned", "open">>,
     <<"closed", "open">>}

\* the status requests a step has taken from the network
StatusServed ==
    {q \in (outbox \ outbox') \cup (adminOutbox \ adminOutbox') : q.kind = "status"}

\* C22: every change of the status of a request follows an edge of the state
\* machine, closed is left only by the reopen of the participant, and a status
\* request along any other edge changes nothing in the Store.
RequestStateMachine ==
    [][/\ \A rid \in 1..Len(requests) :
              requests'[rid].status # requests[rid].status =>
                  /\ <<requests[rid].status, requests'[rid].status>> \in Edges
                  /\ requests[rid].status = "closed" =>
                         \E q \in StatusServed \cap outbox :
                             q.request_id = rid /\ q.status = "open" /\ q.suppress
       /\ \A q \in StatusServed :
              (/\ q.request_id \in 1..Len(requests)
               /\ requests[q.request_id].status # q.status
               /\ <<requests[q.request_id].status, q.status>> \notin Edges)
                  => /\ requests' = requests
                     /\ handoffMessages' = handoffMessages]_vars

\* the relay has refused the close of a request nobody was assigned to, and
\* has closed and reopened another time
OpenNotClosedByTeardown ==
    /\ Len(requests) >= 1
    /\ requests[1].status = "open"
    /\ ~requests[1].reopened
    /\ \E i \in 1..Len(served) : served[i].op = "close" /\ served[i].from = "open"

\* C23: in every request record, in the Store and in the queue the console
\* keeps, assigned_to is null unless the status is assigned.
AssignedOnlyWhileAssigned ==
    /\ \A rid \in 1..Len(requests) :
           requests[rid].status # "assigned" => requests[rid].assigned_to = NULL
    /\ \A rid \in 1..Len(adminRequests) :
           adminRequests[rid].status # "assigned" => adminRequests[rid].assigned_to = NULL

(***************************************************************************)
(* A handoff that starts with a quick action and is closed by an operator  *)
(* while the participant goes on writing.                                  *)
(***************************************************************************)
NextLocked ==
    \/ HandleQuickAction
    \/ \E reply \in {EscalationText} : SendMessageFulfilled(reply)
    \/ HandleSend
    \/ \E p \in inbox : ReceiveActiveRequest(p)
    \/ \E p \in inbox : ReceiveDelivered(p)
    \/ \E q \in outbox : ServeActive(q)
    \/ \E q \in outbox : ServeMessage(q)
    \/ \E op \in {"opA"}, rid \in 1..MaxRequests, to \in {"assigned", "closed"} :
           OperatorStatus(op, rid, to)

SpecLocked == Init /\ [][NextLocked]_vars

\* C24: once the relay has refused a text of the participant for a closed
\* request, the participant sends no further text to that request while it is
\* closed.
NoRequestAfterRejection ==
    [][\A q \in outbox' \ outbox :
           (q.kind = "message" /\ q.sender = "user")
               => ~(/\ q.request_id \in 1..Len(requests)
                    /\ requests[q.request_id].status = "closed"
                    /\ \E n \in 1..MaxUserTexts : Refused(UserText(n)))]_vars

(***************************************************************************)
(* The console with an administrator logged in, next to operator opA.      *)
(***************************************************************************)
InitAdmin ==
    /\ requests = <<>>
    /\ handoffMessages = <<>>
    /\ InitParticipant
    /\ InitReader(1)
    /\ username = "admin"
    /\ token = TRUE
    /\ adminTimers = {}
    /\ adminRequests = <<>>
    /\ selectedId = NoRequest
    /\ adminMessages = <<>>
    /\ adminLastMessageId = 0
    /\ adminOutbox = {}
    /\ adminInbox = {}

SpecAdmin == InitAdmin /\ [][NextConsole]_vars

\* the queue shows the selected request as not closed and assigned to another
\* operator
AssignedToAnother ==
    /\ selectedId \in 1..Len(adminRequests)
    /\ adminRequests[selectedId].status # "closed"
    /\ adminRequests[selectedId].assigned_to \notin {NULL, username}

\* C25: the assignment rule never blocks an administrator.  While the queue
\* shows the selected request assigned to another operator and not closed,
\* the console lets the administrator reply and change the status; and the
\* relay carries out a reply or a close of the administrator for a request
\* it finds assigned to another operator.
AdministratorExemption ==
    /\ []((UserType = "admin" /\ AssignedToAnother /\ token /\ AdminMaySend) =>
             /\ AgentReplies < MaxAgentReplies => ENABLED AdminHandleSend
             /\ ENABLED AdminHandleStatus("assigned")
             /\ ENABLED AdminHandleStatus("closed"))
    /\ [][UserType = "admin" =>
             \A p \in adminInbox' \ adminInbox :
                 (/\ p.kind = "send" \/ (p.kind = "status" /\ p.status = "closed")
                  /\ p.before.status = "assigned"
                  /\ p.before.assigned_to # username) => p.ok]_vars

\* the relay has carried out the reply of the administrator to a request that
\* is assigned to opA
AdministratorReplied ==
    /\ username = "admin"
    /\ AssignedToAnother
    /\ \E p \in adminInbox :
           p.kind = "send" /\ p.ok /\ p.before.assigned_to = "opA"

\* C26: while the same request is polled on the same page, the cursor of the
\* participant never decreases, in whatever order the responses of
\* overlapping polls arrive.
CursorMonotonic ==
    [][(handoffRequestId' = handoffRequestId /\ handoffRequestId # NoRequest
            /\ page' = page)
           => handoffLastMessageId' >= handoffLastMessageId]_vars

(***************************************************************************)
(* The message pane of the console while two participants write: the       *)
(* operator moves between the two requests of the queue, and nothing       *)
(* awaits a fetch or a poll before the selection changes.                  *)
(***************************************************************************)
InitThreads ==
    /\ requests = <<NewRequest("web_1"), NewRequest("web_2")>>
    /\ handoffMessages = <<>>
    /\ InitParticipant
    /\ InitConsole
    /\ InitReader(1)

NextThreads ==
    \/ \E rid \in 1..MaxRequests : RelayAppend(rid, "user", NULL)
    \/ QueueTick
    \/ \E rid \in 1..MaxRequests : SelectRequest(rid)
    \/ MessageTick
    \/ \E q \in adminOutbox : AdminServe(q)
    \/ \E p \in adminInbox : AdminReceive(p)

SpecThreads == InitThreads /\ [][NextThreads]_vars

\* the request a displayed message belongs to
RequestOf(message) == handoffMessages[message.id].request_id

\* C27: every message the console displays belongs to the request that is
\* selected, however selection changes interleave with the responses of the
\* fetches and polls of a request selected before.
ThreadIsolation ==
    \A i \in 1..Len(adminMessages) : RequestOf(adminMessages[i]) = selectedId

\* C28: the message pane lists a message of the selected request at most once
\* and in ascending order of ids, however the fetch of the selection effect
\* interleaves with the polls.
ThreadExactlyOnce ==
    \A i, j \in 1..Len(adminMessages) :
        (i < j /\ RequestOf(adminMessages[i]) = selectedId
               /\ RequestOf(adminMessages[j]) = selectedId)
            => adminMessages[i].id < adminMessages[j].id

\* the places of the statements of closeHandoff in what it has done
Writes(key) ==
    {i \in 1..Len(teardown) : teardown[i].op = "setItem" /\ teardown[i].target = key}

Sends(request) ==
    {i \in 1..Len(teardown) : teardown[i].op # "setItem" /\ teardown[i].value = request}

\* C29: closeHandoff on an active handoff writes the transient flag and the
\* request id, then issues the system note, then issues the close; both are
\* issued by the same mechanism, sendBeacon or else a fetch that nothing
\* awaits, and when the handler returns both are on their way and no response
\* has been taken.
TeardownOrdering ==
    /\ [](teardown # <<>> =>
             \E f \in Writes("crisos_handoff_closed_on_unload"),
                i \in Writes("crisos_handoff_request_id") :
                 /\ teardown[i].value \in 1..MaxRequests
                 /\ \E n \in Sends(CloseNote(teardown[i].value)),
                       c \in Sends(CloseStatus(teardown[i].value)) :
                        /\ f < n /\ i < n /\ n < c
                        /\ teardown[n].op = teardown[c].op
                        /\ teardown[n].op \in {"sendBeacon", "fetch"}
                 /\ Cardinality(Sends(CloseNote(teardown[i].value))) = 1
                 /\ Cardinality(Sends(CloseStatus(teardown[i].value))) = 1)
    /\ [][(teardown' # teardown /\ teardown' # <<>>) =>
             /\ handoffActive /\ teardown'[2].value = handoffRequestId
             /\ Issued(teardown') \subseteq outbox'
             /\ inbox' = inbox
             /\ UNCHANGED storeVars]_vars

\* closeHandoff has run in a browser without sendBeacon
TornDownByFetch ==
    /\ teardown # <<>>
    /\ closingRef
    /\ \E n \in Sends(CloseNote(storedRequestId)) : teardown[n].op = "fetch"
    /\ CloseStatus(storedRequestId) \in outbox

\* the poll responses a step hands to the callback of the live page
PollsProcessed ==
    {p \in inbox \ inbox' : mounted /\ page' = page /\ p.then = "poll" /\ p.ok}

\* C30: once the participant has processed a poll response that is not empty
\* and ends with id L, the ignore set holds no id up to L; an empty response
\* leaves the ignore set, the cursor and the rendered list as they were.
IgnoreSetPruned ==
    [][\A p \in PollsProcessed :
           IF Len(p.messages) > 0
           THEN \A id \in ignoreHandoffIds' : id > LastId(p.messages)
           ELSE UNCHANGED <<ignoreHandoffIds, handoffLastMessageId, messages>>]_vars

\* a text of the participant that a poll has returned is rendered once, and
\* its id has left the ignore set
OwnMessagePruned ==
    /\ ignoreHandoffIds = {}
    /\ handoffRequestId # NoRequest
    /\ \E i \in 1..Len(handoffMessages) :
           /\ i <= handoffLastMessageId
           /\ handoffMessages[i].sender = "user"
           /\ handoffMessages[i].request_id = handoffRequestId
           /\ Cardinality({k \in 1..Len(messages) :
                  messages[k].sender = "user"
                      /\ messages[k].text = handoffMessages[i].text}) = 1

(***************************************************************************)
(* Message polling on a page that survives its teardown event: the note of *)
(* closeHandoff reaches the relay and comes back with the next poll.       *)
(***************************************************************************)
NextEcho ==
    \/ NextPoll
    \/ CloseHandoff

SpecEcho == Init /\ [][NextEcho]_vars

\* what the rendered list has gained in a step
Gained == SubSeq(messages', Len(messages) + 1, Len(messages'))

\* a message of the relay as the chat shows it: an agent as a bot reply, a
\* system message as a session notice
Shown(m) ==
    [id |-> m.id, sender |-> IF m.sender = "agent" THEN "bot" ELSE m.sender,
     text |-> m.text]

\* C31: every agent and system message a poll of the participant returns is
\* appended to the rendered list, an agent as a bot reply and a system message
\* as a notice, whatever the ignore set holds; of the messages of the
\* participant exactly those whose id is in the ignore set are left out.
EchoSuppressionOnly ==
    [][\A p \in PollsProcessed :
           /\ Len(messages') >= Len(messages)
           /\ SubSeq(messages', 1, Len(messages)) = messages
           /\ \A i \in 1..Len(p.messages) :
                  LET m == p.messages[i]
                      places == {k \in 1..Len(Gained) : Gained[k].id = m.id}
                  IN  IF m.sender = "user" /\ m.id \in ignoreHandoffIds
                      THEN places = {}
                      ELSE /\ Cardinality(places) = 1
                           /\ \A k \in places : Gained[k] = Shown(m)]_vars

\* polls have brought the reply of an operator and the note of the teardown
\* next to a text of the participant that the ignore set has kept out of the
\* rendered list
ReplyShownEchoHidden ==
    /\ handoffLastMessageId >= 2
    /\ \E i, j \in 1..handoffLastMessageId :
           /\ j \in 1..Len(handoffMessages) /\ i \in 1..Len(handoffMessages)
           /\ handoffMessages[i].sender = "user"
           /\ handoffMessages[j].sender = "agent"
           /\ \A k \in 1..Len(messages) : messages[k].id # i
           /\ \E k \in 1..Len(messages) : messages[k] = Shown(handoffMessages[j])
    /\ \E j \in 1..Len(handoffMessages) :
           /\ handoffMessages[j].sender = "system"
           /\ \E k \in 1..Len(messages) : messages[k] = Shown(handoffMessages[j])

\* the tab loads the chat with the transient flag present and a restored
\* state that is marked active
RecoveryWhenActive ==
    /\ page' = page + 1
    /\ ~adminView'
    /\ reopenFlag
    /\ persisted.handoffActive
    /\ (persisted.handoffRequestId # NoRequest \/ storedRequestId # NoRequest)

\* C32: a load that finds the transient flag and a client already marked
\* active leaves handoffActive, handoffRequestId and the cursor as they were
\* restored; the cursor is not set to 0.
ActiveRecoveryKeepsCursor ==
    [][RecoveryWhenActive =>
           /\ ~reopenFlag'
           /\ handoffActive' = persisted.handoffActive
           /\ handoffRequestId' = persisted.handoffRequestId
           /\ handoffLastMessageId' = persisted.handoffLastMessageId]_vars

\* the page has reopened the request of a client that was restored active
\* with a cursor past 0
RecoveredWithCursor ==
    /\ page > 0
    /\ mounted
    /\ handoffActive
    /\ handoffLastMessageId > 0
    /\ ~reopenFlag
    /\ \E q \in outbox : q = [ReopenStatus(handoffRequestId) EXCEPT !.page = page]

\* C33: once handoffActive is true it stays true, whatever the participant
\* does: polls, sends, failures and reloads never set it to false.
ActiveStaysActive == [][handoffActive => handoffActive']_vars

(***************************************************************************)
(* Teardown events on a page that survives them, with the participant      *)
(* moving to the dashboard and back.                                       *)
(***************************************************************************)
NextTeardown ==
    \/ HandleSend
    \/ \E reply \in {EscalationText} : SendMessageFulfilled(reply)
    \/ \E p \in inbox : ReceiveActiveRequest(p)
    \/ CloseHandoff
    \/ OpenDashboard
    \/ HandlePopState
    \/ \E q \in outbox : ServeActive(q)

SpecTeardown == Init /\ [][NextTeardown]_vars

\* C34: between two loads of the tab closeHandoff issues its close sequence at
\* most once, whichever teardown events fire and whatever the participant
\* does on a page that has survived them.
TeardownOncePerPage ==
    [][(page' = page /\ ~closingRef /\ closingRef') => teardown = <<>>]_vars

\* the deliveries of a text: appended by the relay, on their way to it, or
\* waiting for the lookup of the request
Deliveries(text) ==
    Cardinality({i \in 1..Len(handoffMessages) :
                    handoffMessages[i].sender = "user" /\ handoffMessages[i].text = text})
        + Cardinality({q \in outbox : q.kind \in {"message", "active"} /\ q.text = text})
        + Cardinality({p \in inbox : p.then = "send" /\ p.text = text})

\* handleSend runs for an active handoff: a delivery or a lookup leaves the page
SubmitsToRelay ==
    /\ handoffActive
    /\ inbox' = inbox
    /\ \E q \in outbox' \ outbox : q.kind \in {"message", "active"} /\ q.text # NULL

\* a send goes on: its lookup or its delivery is answered, or the relay takes
\* the delivery and appends or refuses it
SendGoesOn ==
    \/ \E p \in inbox \ inbox' : p.then \in {"deliver", "send"}
    \/ \E q \in outbox \ outbox' : q.kind = "message" /\ q.sender = "user"

\* C35: a text submitted during an active handoff is appended to the rendered
\* list once, when it is submitted; whether the relay appends it, refuses it
\* or the lookup of the request brings nothing, the rendered list and the
\* error state are not changed again and the text is not sent a second time.
OptimisticRendering ==
    /\ [](\A n \in 1..MaxUserTexts : Deliveries(UserText(n)) <= 1)
    /\ [][/\ SubmitsToRelay =>
                \E q \in outbox' \ outbox :
                    /\ Len(messages') = Len(messages) + 1
                    /\ SubSeq(messages', 1, Len(messages)) = messages
                    /\ messages'[Len(messages')].sender = "user"
                    /\ messages'[Len(messages')].text = q.text
                    /\ error' = error
          /\ SendGoesOn => UNCHANGED <<messages, error, status>>]_vars

\* the relay has refused a text of the participant, which the rendered list
\* shows once
RefusedTextShownOnce ==
    \E n \in 1..MaxUserTexts :
        /\ Deliveries(UserText(n)) = 0
        /\ handoffRequestId # NoRequest
        /\ requests[handoffRequestId].status = "closed"
        /\ Cardinality({k \in 1..Len(messages) :
               messages[k].sender = "user" /\ messages[k].text = UserText(n)}) = 1
        /\ n > 1

(***************************************************************************)
(* The participant resets the chat, before and after reloads of the tab,   *)
(* and escalates again.                                                    *)
(***************************************************************************)
NextReset ==
    \/ HandleSend
    \/ \E reply \in {"ok", EscalationText} : SendMessageFulfilled(reply)
    \/ HandleReset
    \/ \E p \in inbox : ReceiveActiveRequest(p)
    \/ QuotaExceeded
    \/ CloseHandoff
    \/ LoadPage
    \/ \E q \in outbox : ServeActive(q)
    \/ \E q \in outbox : ServeMessage(q)
    \/ \E q \in outbox : ServeStatus(q)

SpecReset == Init /\ [][NextReset]_vars

\* the rendered list is emptied on the page that shows it
ChatCleared == page' = page /\ messages # <<>> /\ messages' = <<>>

\* C36: clearChat leaves handoffActive false, no request id, the cursor at 0,
\* an empty rendered list and a sessionId no conversation has had; the request
\* an escalation resolves afterwards belongs to the conversation of the
\* sessionId the page holds, never to an earlier one.
ResetStartsAfresh ==
    /\ [][ChatCleared =>
              /\ ~handoffActive'
              /\ handoffRequestId' = NoRequest
              /\ handoffLastMessageId' = 0
              /\ messages' = <<>>
              /\ sessionId' \notin UsedSessionIds]_vars
    /\ []((handoffActive /\ handoffRequestId # NoRequest) =>
              requests[handoffRequestId].conversation_id = sessionId)

\* after a reset the participant has escalated again and holds a second
\* request, of the new conversation
EscalatedAfterReset ==
    /\ sessionId # "web_1"
    /\ handoffActive
    /\ handoffRequestId # NoRequest
    /\ Len(requests) > 1
    /\ requests[handoffRequestId].conversation_id = sessionId

\* the reopen effect of the page that loads has a flag and a request to act on
RecoveryActs ==
    /\ ~adminView'
    /\ reopenFlag
    /\ (persisted.handoffRequestId # NoRequest \/ storedRequestId # NoRequest)

=============================================================================
